---- MODULE Spec2Model ----
(***************************************************************************)
(* A model of the memtx engine kernel, src/box/memtx_engine.c: the tuple   *)
(* allocator hooks with their delayed-free discipline, the checkpoint      *)
(* (snapshot) protocol with its writer thread, the garbage collector and   *)
(* the index extent pool with its reservation list.                        *)
(*                                                                         *)
(* The tx thread runs fibers that yield only at explicit points, so every  *)
(* handler is one action per stretch between two yields.  The snapshot     *)
(* writer is an OS thread and takes its own steps.                         *)
(***************************************************************************)
EXTENDS Integers, Sequences, FiniteSets, TLC

(* ------------------------------ bounds -------------------------------- *)
\* tuples ever allocated
MaxTuples == 2
\* checkpoints ever begun
MaxCheckpoints == 2
\* gc tasks ever scheduled, and the run steps a task takes
MaxGcTasks == 2
MaxGcSteps == 2
\* blocks the index extent pool can hand out, and the largest reservation
MaxExtents == 3
MaxReserve == 2
\* tuple chunks allocated at one time
MaxChunks == 2
\* rows of the snapshot file recovered from, and tuples of the recovered
\* spaces
MaxRows == 2
\* blocks asked of memtx_index_extent_reserve() ahead of the injection
Reserve8 == 8

NULL == [null |-> TRUE]

Tuples == 1 .. MaxTuples
\* the signatures the host can have reached: it grows by at most one between
\* two checkpoints
Vclocks == 0 .. MaxCheckpoints

(* ------------------------- the space cache ---------------------------- *)
\* The spaces space_foreach() visits, in its order.  Space 2 is temporary,
\* space 4 belongs to another engine, space 5 has no primary index.
SpaceCache == <<1, 2, 3, 4, 5>>
space_is_temporary(sp) == sp = 2
space_is_memtx(sp) == sp # 4
space_has_pk(sp) == sp # 5
\* the spaces that can hold memtx tuples
TupleSpaces == {SpaceCache[i] : i \in {j \in DOMAIN SpaceCache :
                    space_is_memtx(SpaceCache[j]) /\ space_has_pk(SpaceCache[j])}}

VARIABLES
    proc,               \* "running", or how the process ended
    checkpoint,         \* memtx->checkpoint: NULL or struct checkpoint
    snapshot_version,   \* memtx->snapshot_version
    delayed_free_mode,  \* memtx->alloc.free_mode == SMALL_DELAYED_FREE
    tuples,             \* every memtx_tuple: allocation state, space, version
    cord,               \* the writer thread of the checkpoint
    rows,               \* the rows written to the in-progress snapshot file
    inprogress_files,   \* signatures that have a .snap.inprogress file
    snap_files,         \* signatures that have a .snap file
    snap_dir,           \* memtx->snap_dir index: the registered vclocks
    ckpt_fiber,         \* where the fiber driving the checkpoint stands
    wait_result,        \* what wait_checkpoint returned to it
    at_begin,           \* history: the tuples indexed at begin_checkpoint
    ckpt_end,           \* history: how the last checkpoint ended
    gc_queue,           \* memtx->gc_queue
    gc_to_free,         \* memtx->gc_to_free
    gc_freed,           \* tasks whose finalizer has been called
    gc_scheduled,       \* number of tasks ever scheduled
    reserved_extents,   \* memtx->reserved_extents: the list, head first
    num_reserved_extents,
    extents_used,       \* blocks memtx_index_extent_alloc() handed out
    errinj_index_alloc, \* ERRINJ_INDEX_ALLOC is set
    reserve_pending,    \* history: allocations that reservations still cover
    ext_last,           \* history: the last extent call and what it did
    pool_size,          \* blocks the index extent pool can hold (the quota)
    inj_log,            \* history: allocations since the injection was set
    state,              \* memtx->state
    force_recovery,     \* memtx->force_recovery
    spaces,             \* the space cache: replace mode, indexes, bsize
    refs,               \* reference count of every tuple of the indexes
    scan,               \* memtx_engine_recover_snapshot(): cursor and rc
    stmt,               \* the txn_stmt in progress
    rec_last,           \* history: the last call of the recovery interface
    write_row_last,     \* checkpoint_write_row(): static ev_tstamp last
    tuple_chunks        \* the tuple chunks smalloc() handed out, and what
                        \* the last memtx_tuple_chunk_new() returned

vars == <<proc, checkpoint, snapshot_version, delayed_free_mode, tuples,
          cord, rows, inprogress_files, snap_files, snap_dir, ckpt_fiber,
          wait_result, at_begin, ckpt_end, gc_queue, gc_to_free, gc_freed,
          gc_scheduled,
          reserved_extents, num_reserved_extents, extents_used,
          errinj_index_alloc, reserve_pending, ext_last, pool_size, inj_log,
          state, force_recovery, spaces, refs, scan, stmt, rec_last,
          write_row_last, tuple_chunks>>

file_vars == <<inprogress_files, snap_files, snap_dir>>
gc_vars == <<gc_queue, gc_to_free, gc_freed, gc_scheduled>>
ckpt_vars == <<proc, checkpoint, snapshot_version, delayed_free_mode, tuples,
               cord, rows, ckpt_fiber, wait_result, at_begin, ckpt_end>>
ext_vars == <<reserved_extents, num_reserved_extents, extents_used,
              errinj_index_alloc, reserve_pending, ext_last, pool_size,
              inj_log>>
rec_vars == <<state, force_recovery, spaces, refs, scan, stmt, rec_last>>

(* ------------------------------ helpers ------------------------------- *)
Min(S) == CHOOSE x \in S : \A y \in S : x <= y
Max(S) == CHOOSE x \in S : \A y \in S : x >= y

RECURSIVE SortedSeq(_)
SortedSeq(S) == IF S = {} THEN <<>> ELSE <<Min(S)>> \o SortedSeq(S \ {Min(S)})

Range(s) == {s[i] : i \in DOMAIN s}

NoTuple == [st |-> "none", space |-> 0, version |-> 0]
NoCord == [st |-> "none", pc |-> "-", result |-> 0, entry |-> 0]
NoBegin == {}
NoExt == [op |-> "none", rc |-> 0, block |-> 0, via |-> "-", covered |-> FALSE,
          gc_calls |-> 0, reserved_before |-> <<>>]
NoEnd == [how |-> "none", vclock |-> 0, prev |-> "none"]
\* recovery: the space cache entry of a space, one set of tuples per index
SpaceIds == {SpaceCache[i] : i \in DOMAIN SpaceCache}
RecTuples == 1 .. MaxRows
\* space 1 is a data dictionary space; spaces 1, 3 and 4 have a secondary
\* index, space 2 has the primary index only, space 5 has no index
space_is_system(sp) == sp = 1
space_index_count(sp) == IF sp = 5 THEN 0 ELSE IF sp = 2 THEN 1 ELSE 2
NoSpace == [exists |-> FALSE, replace |-> "building_primary",
            pk_built |-> FALSE, index |-> <<>>, bsize |-> 0]
\* the space cache before any space is created
NoSpaces == [sp \in {} |-> NoSpace]
\* space_by_id(id): the space of the cache, or none
space_by_id(sps, id) == IF id \in DOMAIN sps THEN sps[id] ELSE NoSpace
NoChunks == [n |-> 0, ret |-> "none"]
NoScan == [pc |-> "none", pos |-> 0, applied |-> {}, failed |-> {},
           ret |-> 0, why |-> "none"]
NoStmt == [space |-> 0, old_tuple |-> 0, new_tuple |-> 0,
           engine_savepoint |-> FALSE, fails |-> FALSE, before |-> <<>>]
NoRec == [op |-> "none", rc |-> 0, from |-> "none", mode |-> "none",
          made |-> FALSE]
NoInj == [reserved |-> 0, covered |-> 0, ok |-> 0, failed |-> FALSE,
          late |-> FALSE]

\* smfree(): the bytes of the tuple, its version among them, are gone
Freed(tuple) == [st |-> "freed", space |-> tuple.space, version |-> 0]

\* A tuple is "live" from its insertion into the primary index of its space
\* until the statement that removes it drops its last reference.
Resident(t) == tuples[t].st \in {"live", "delayed"}

\* the primary index of space sp: space_index(sp, 0)
index(sp) == {t \in Tuples : tuples[t].st = "live" /\ tuples[t].space = sp}

\* uint32_t version, uint32_t snapshot_version: a value is held as the
\* 32-bit two's complement integer of the same bits, so 0 .. 2^31 - 1 are
\* themselves and 2^31 .. 2^32 - 1 are INT32_MIN .. -1.
INT32_MAX == 2147483647
INT32_MIN == -INT32_MAX - 1
\* 2^32 - 2
UINT32_MAX_1 == 0 - 2

\* a <= b on uint32_t
uint32_le(a, b) == IF (a >= 0) = (b >= 0) THEN a <= b ELSE a >= 0

\* memtx->snapshot_version++ on a uint32_t: 2^32 - 1 is followed by 0
version_inc(v) == IF v = INT32_MAX THEN INT32_MIN ELSE v + 1

(* ------------------------------- Init --------------------------------- *)
\* An engine with no tuple, no checkpoint in progress, empty gc queues and
\* an empty snapshot directory, whose snapshot_version is version.  quota
\* is the number of extents the arena can hold.
engine_idle(force, quota, version) ==
    /\ proc = "running"
    /\ checkpoint = NULL
    /\ snapshot_version = version
    /\ delayed_free_mode = FALSE
    /\ tuples = [t \in Tuples |-> NoTuple]
    /\ cord = NoCord
    /\ rows = <<>>
    /\ inprogress_files = {}
    /\ snap_files = {}
    /\ snap_dir = {}
    /\ ckpt_fiber = "idle"
    /\ wait_result = 0
    /\ at_begin = NoBegin
    /\ ckpt_end = NoEnd
    /\ gc_queue = <<>>
    /\ gc_to_free = <<>>
    /\ gc_freed = {}
    /\ gc_scheduled = 0
    /\ reserved_extents = <<>>
    /\ num_reserved_extents = 0
    /\ extents_used = {}
    /\ errinj_index_alloc = FALSE
    /\ reserve_pending = 0
    /\ ext_last = NoExt
    /\ pool_size = quota
    /\ inj_log = NoInj
    /\ state = "MEMTX_INITIALIZED"
    /\ force_recovery = force
    /\ spaces = NoSpaces
    /\ refs = [t \in RecTuples |-> 0]
    /\ scan = NoScan
    /\ stmt = NoStmt
    /\ rec_last = NoRec
    /\ write_row_last = 0
    /\ tuple_chunks = NoChunks

\* memtx_engine_new(snap_dirname, force_recovery, tuple_arena_max_size, ...):
\* the calloc'ed engine
memtx_engine_new(force, quota) == engine_idle(force, quota, 0)

\* The engine the checkpoint, gc and extent specifications start from.
Init == memtx_engine_new(FALSE, MaxExtents)

(* ------------------------- garbage collector -------------------------- *)
GcState == [queue |-> gc_queue, to_free |-> gc_to_free, freed |-> gc_freed]

RECURSIVE GcStepsLeft(_)
GcStepsLeft(q) == IF q = <<>> THEN 0 ELSE Head(q).steps + GcStepsLeft(Tail(q))

\* memtx_engine_run_gc(): whether a finished task is finalized at once
gc_free_now_always == TRUE
gc_free_now == checkpoint = NULL

\* memtx_engine_run_gc(): one iteration on the head task of gc_queue.
\* task->vtab->run() reports done when the task's last step has run.
memtx_engine_run_gc(g) ==
    IF g.queue = <<>>
    THEN [stop |-> TRUE, g |-> g]
    ELSE LET task == Head(g.queue)
             task_done == task.steps = 1
         IN  IF ~task_done
             THEN [stop |-> FALSE,
                   g |-> [g EXCEPT !.queue =
                            <<[task EXCEPT !.steps = @ - 1]>> \o Tail(g.queue)]]
             ELSE IF gc_free_now
                  THEN [stop |-> FALSE,
                        g |-> [g EXCEPT !.queue = Tail(@),
                                        !.freed = @ \cup {task.id}]]
                  ELSE [stop |-> FALSE,
                        g |-> [g EXCEPT !.queue = Tail(@),
                                        !.to_free = Append(@, task.id)]]

\* while ((p = alloc()) == NULL) { run_gc(&stop); if (stop) break; }
\* nfail is the number of attempts in a row that the allocator refuses;
\* gc_calls counts the calls of memtx_engine_run_gc().
\* if (stop) break;
retry_gives_up_at_once(stop) == TRUE
retry_gives_up(stop) == stop

RECURSIVE alloc_retry(_, _)
alloc_retry(nfail, g) ==
    IF nfail = 0
    THEN [ok |-> TRUE, g |-> g, gc_calls |-> 0]
    ELSE LET r == memtx_engine_run_gc(g)
         IN  IF retry_gives_up(r.stop)
             THEN [ok |-> FALSE, g |-> g, gc_calls |-> 1]
             ELSE [alloc_retry(nfail - 1, r.g) EXCEPT !.gc_calls = @ + 1]

SetGc(g) ==
    /\ gc_queue' = g.queue
    /\ gc_to_free' = g.to_free
    /\ gc_freed' = g.freed

\* memtx_engine_gc_after_checkpoint(): finalize every deferred task
memtx_engine_gc_after_checkpoint(g) ==
    [g EXCEPT !.freed = @ \cup Range(g.to_free), !.to_free = <<>>]

(* --------------------------- tuple allocator -------------------------- *)
\* smalloc() first releases the delayed-free list unless the allocator is
\* in delayed-free mode (small_collect_garbage).
smalloc_collect(tt) ==
    IF delayed_free_mode THEN tt
    ELSE [t \in Tuples |-> IF tt[t].st = "delayed" THEN Freed(tt[t]) ELSE tt[t]]

\* memtx_tuple_new(format, data, end) for a format of space sp: the new
\* tuple, or none when the allocation fails; tt is the tuple store after
\* smalloc() and g the gc queues after the retries
memtx_tuple_new(sp, nfail) ==
    LET r == alloc_retry(nfail, GcState)
        t == Min({u \in Tuples : tuples[u].st = "none"})
        tt == smalloc_collect(tuples)
    IN  [g |-> r.g,
         tt |-> IF r.ok
                THEN [tt EXCEPT ![t] = [st |-> "live", space |-> sp,
                                        version |-> snapshot_version]]
                ELSE tt]

\* memtx_tuple_delete(): the test that frees the tuple at once
tuple_free_now_always(t) == TRUE
tuple_free_now_whatever_version(t) ==
    \/ ~delayed_free_mode
    \/ space_is_temporary(tuples[t].space)
tuple_free_now(t) ==
    \/ ~delayed_free_mode
    \/ tuples[t].version = snapshot_version
    \/ space_is_temporary(tuples[t].space)

\* memtx_tuple_delete(format, tuple): smfree() or smfree_delayed()
memtx_tuple_delete(tt, t) ==
    [tt EXCEPT ![t] = IF tuple_free_now(t) THEN Freed(tt[t])
                      ELSE [tt[t] EXCEPT !.st = "delayed"]]

\* smalloc() attempts that fail in a row: none, one, or every one
AllRefused == MaxGcTasks * MaxGcSteps + 1

\* An insert statement: memtx_tuple_new() and the insertion of the tuple
\* into the primary index of space sp.  Statements never yield.
Insert(sp, nfail) ==
    /\ proc = "running"
    /\ \E t \in Tuples : tuples[t].st = "none"
    /\ LET r == memtx_tuple_new(sp, nfail)
       IN  /\ SetGc(r.g)
           /\ tuples' = r.tt
    /\ UNCHANGED <<proc, checkpoint, snapshot_version, delayed_free_mode,
                   cord, rows, file_vars, ckpt_fiber, wait_result, at_begin,
                   ckpt_end, gc_scheduled, ext_vars, rec_vars, tuple_chunks,
                   write_row_last>>

\* A delete statement: the tuple leaves the primary index and its last
\* reference is dropped, so tuple_unref() calls memtx_tuple_delete().
Delete(t) ==
    /\ proc = "running"
    /\ tuples[t].st = "live"
    /\ tuples' = memtx_tuple_delete(tuples, t)
    /\ UNCHANGED <<proc, checkpoint, snapshot_version, delayed_free_mode,
                   cord, rows, file_vars, ckpt_fiber, wait_result, at_begin,
                   ckpt_end,
                   gc_vars, ext_vars, rec_vars, tuple_chunks, write_row_last>>

(* ----------------------------- checkpoint ----------------------------- *)
\* checkpoint_new(): vclock_create() leaves the signature 0
checkpoint_new ==
    [entries |-> <<>>, waiting_for_snap_thread |-> FALSE, vclock |-> 0,
     touch |-> FALSE]

\* index_create_snapshot_iterator(pk): a read view of the index as of now,
\* yielding its tuples in index order
index_create_snapshot_iterator(sp) == [rest |-> SortedSeq(index(sp))]

\* checkpoint_add_space(): the spaces that get no entry
checkpoint_skips_persistent_only(sp) == ~space_is_memtx(sp) \/ ~space_has_pk(sp)
checkpoint_skips(sp) ==
    space_is_temporary(sp) \/ ~space_is_memtx(sp) \/ ~space_has_pk(sp)

\* checkpoint_add_space(sp, ckpt); fail says what fails for this space:
\* "entry" (malloc), "iterator" (index_create_snapshot_iterator) or "none"
checkpoint_add_space(sp, ckpt, fail) ==
    IF checkpoint_skips(sp) THEN [rc |-> 0, ckpt |-> ckpt]
    ELSE IF fail = "entry" THEN [rc |-> -1, ckpt |-> ckpt]
    ELSE LET it == IF fail = "iterator" THEN NULL
                   ELSE index_create_snapshot_iterator(sp)
             entry == [space_id |-> sp, iterator |-> it]
         IN  [rc |-> IF it = NULL THEN -1 ELSE 0,
              ckpt |-> [ckpt EXCEPT !.entries = Append(@, entry)]]

\* space_foreach(checkpoint_add_space, ckpt): stops at the first failure
RECURSIVE space_foreach_add(_, _, _)
space_foreach_add(i, ckpt, fail) ==
    IF i > Len(SpaceCache) THEN [rc |-> 0, ckpt |-> ckpt]
    ELSE LET sp == SpaceCache[i]
             r == checkpoint_add_space(sp, ckpt,
                      IF fail.sp = sp THEN fail.kind ELSE "none")
         IN  IF r.rc # 0 THEN r ELSE space_foreach_add(i + 1, r.ckpt, fail)

\* what can fail in begin_checkpoint
BeginFailures ==
    {[sp |-> 0, kind |-> "none"], [sp |-> 0, kind |-> "checkpoint"]}
    \cup {[sp |-> SpaceCache[i], kind |-> k] :
               i \in DOMAIN SpaceCache, k \in {"entry", "iterator"}}

\* checkpoint_delete(): entry->iterator->free(entry->iterator) on every
\* entry; an entry whose iterator is NULL makes it dereference NULL
checkpoint_delete_ok(ckpt) ==
    \A i \in DOMAIN ckpt.entries : ckpt.entries[i].iterator # NULL

\* checkpoint_cancel(): whether the writer thread is cancelled and joined
checkpoint_cancel_never_joins(ckpt) == FALSE
checkpoint_cancel_joins(ckpt) == ckpt.waiting_for_snap_thread

\* xdir_last_vclock(&memtx->snap_dir): the last signature, or -1
xdir_last_vclock == IF snap_dir = {} THEN -1 ELSE Max(snap_dir)

\* The process ends: "shutdown", "panic" (panic()), "assert" (a failed
\* assert()) or "crash" (a NULL dereference).  Its memory and its threads
\* are gone; the snapshot directory stays as it is.  last: the call of the
\* recovery interface it ends in.
ProcessEndsIn(how, last) ==
    /\ proc' = how
    /\ rec_last' = last
    /\ checkpoint' = NULL
    /\ snapshot_version' = 0
    /\ delayed_free_mode' = FALSE
    /\ tuples' = [t \in Tuples |-> NoTuple]
    /\ rows' = <<>>
    /\ ckpt_fiber' = "idle"
    /\ wait_result' = 0
    /\ at_begin' = NoBegin
    /\ ckpt_end' = IF how = "shutdown" /\ checkpoint # NULL
                   THEN [how |-> "cancelled", vclock |-> checkpoint.vclock,
                         prev |-> "none"]
                   ELSE NoEnd
    /\ gc_queue' = <<>>
    /\ gc_to_free' = <<>>
    /\ gc_freed' = {}
    /\ gc_scheduled' = 0
    /\ reserved_extents' = <<>>
    /\ num_reserved_extents' = 0
    /\ extents_used' = {}
    /\ errinj_index_alloc' = FALSE
    /\ reserve_pending' = 0
    /\ ext_last' = NoExt
    /\ inj_log' = NoInj
    /\ state' = "MEMTX_INITIALIZED"
    /\ spaces' = NoSpaces
    /\ refs' = [t \in RecTuples |-> 0]
    /\ scan' = NoScan
    /\ stmt' = NoStmt
    /\ write_row_last' = 0
    /\ tuple_chunks' = NoChunks
    /\ UNCHANGED <<file_vars, pool_size, force_recovery>>

ProcessEnds(how) == ProcessEndsIn(how, rec_last)

AssertFailed == ProcessEnds("assert") /\ cord' = NoCord

\* memtx_engine_begin_checkpoint(): the allocator mode it leaves,
\* small_alloc_setopt(&memtx->alloc, SMALL_DELAYED_FREE_MODE, true)
begin_free_mode_untouched == delayed_free_mode
begin_free_mode == TRUE

\* memtx_engine_begin_checkpoint()
memtx_engine_begin_checkpoint ==
    /\ proc = "running"
    /\ ckpt_fiber = "idle"
    /\ snapshot_version < MaxCheckpoints
    /\ \E fail \in BeginFailures :
         IF checkpoint # NULL THEN AssertFailed
         ELSE IF fail.kind = "checkpoint" THEN UNCHANGED vars
         ELSE LET r == space_foreach_add(1, checkpoint_new, fail)
              IN  IF r.rc # 0 /\ ~checkpoint_delete_ok(r.ckpt)
                  THEN ProcessEnds("crash") /\ cord' = NoCord
                  ELSE IF r.rc # 0
                  THEN /\ checkpoint' = NULL
                       /\ UNCHANGED <<proc, snapshot_version,
                                      delayed_free_mode, tuples, cord, rows,
                                      file_vars, ckpt_fiber, wait_result,
                                      at_begin, ckpt_end, gc_vars, ext_vars,
                                      rec_vars, tuple_chunks, write_row_last>>
                  ELSE /\ checkpoint' = r.ckpt
                       /\ snapshot_version' = version_inc(snapshot_version)
                       /\ delayed_free_mode' = begin_free_mode
                       /\ ckpt_fiber' = "begun"
                       /\ at_begin' = UNION {index(sp) : sp \in TupleSpaces}
                       /\ ckpt_end' = [NoEnd EXCEPT !.prev = ckpt_end.how]
                       /\ UNCHANGED <<proc, tuples, cord, rows, file_vars,
                                      wait_result, gc_vars, ext_vars,
                                      rec_vars, tuple_chunks, write_row_last>>

\* memtx_engine_wait_checkpoint(vclock), up to the yield in cord_cojoin()
memtx_engine_wait_checkpoint ==
    /\ proc = "running"
    /\ ckpt_fiber = "begun"
    /\ \E v \in Vclocks, start_ok \in BOOLEAN :
         /\ v >= xdir_last_vclock /\ v <= xdir_last_vclock + 1
         /\ IF checkpoint = NULL THEN AssertFailed
            ELSE LET last == xdir_last_vclock
                     c1 == [checkpoint EXCEPT
                              !.touch = IF last >= 0 /\ last = v THEN TRUE ELSE @,
                              !.vclock = v]
                 IN  /\ IF start_ok
                        THEN /\ checkpoint' =
                                  [c1 EXCEPT !.waiting_for_snap_thread = TRUE]
                             /\ cord' = [st |-> "running", pc |-> "open",
                                         result |-> 0, entry |-> 1]
                             /\ ckpt_fiber' = "wait_join"
                             /\ UNCHANGED wait_result
                        ELSE /\ checkpoint' = c1
                             /\ wait_result' = -1
                             /\ ckpt_fiber' = "waited"
                             /\ UNCHANGED cord
                     /\ UNCHANGED <<proc, snapshot_version, delayed_free_mode,
                                    tuples, rows, file_vars, at_begin,
                                    ckpt_end, gc_vars, ext_vars, rec_vars,
                                    tuple_chunks, write_row_last>>

\* memtx_engine_wait_checkpoint(): waiting_for_snap_thread after the join
joined_flag_kept == checkpoint.waiting_for_snap_thread
joined_flag == FALSE

\* memtx_engine_wait_checkpoint() after cord_cojoin() returned
WaitJoined ==
    /\ proc = "running"
    /\ ckpt_fiber = "wait_join"
    /\ cord.st = "exited"
    /\ checkpoint # NULL
    /\ wait_result' = cord.result
    /\ checkpoint' = [checkpoint EXCEPT !.waiting_for_snap_thread = joined_flag]
    /\ cord' = NoCord
    /\ ckpt_fiber' = "waited"
    /\ UNCHANGED <<proc, snapshot_version, delayed_free_mode, tuples, rows,
                   file_vars, at_begin, ckpt_end, gc_vars, ext_vars,
                   rec_vars, tuple_chunks, write_row_last>>

(* --------------------------- writer thread ---------------------------- *)
WriterExit(rc) == cord' = [st |-> "exited", pc |-> "-", result |-> rc, entry |-> 0]

\* checkpoint_f(), up to "saving snapshot": stamp the existing file when
\* touch is set, else (or when that fails) create the in-progress file
WriterOpen ==
    /\ proc = "running"
    /\ cord.st = "running" /\ cord.pc = "open"
    /\ checkpoint # NULL
    /\ \E touch_ok \in BOOLEAN, create_ok \in BOOLEAN :
         IF checkpoint.touch /\ touch_ok
         THEN /\ WriterExit(0)
              /\ UNCHANGED <<checkpoint, rows, file_vars>>
         ELSE /\ checkpoint' = [checkpoint EXCEPT !.touch = FALSE]
              /\ IF create_ok
                 THEN /\ inprogress_files' =
                           inprogress_files \cup {checkpoint.vclock}
                      /\ rows' = <<>>
                      /\ cord' = [cord EXCEPT !.pc = "write"]
                      /\ UNCHANGED <<snap_files, snap_dir>>
                 ELSE /\ WriterExit(-1)
                      /\ UNCHANGED <<rows, file_vars>>
    /\ UNCHANGED <<proc, snapshot_version, delayed_free_mode, tuples,
                   ckpt_fiber, wait_result, at_begin, ckpt_end, gc_vars,
                   ext_vars, rec_vars, tuple_chunks, write_row_last>>

\* ev_now(loop()) after ev_now_update(): the time on the clock, in units of
\* checkpoints: a reading taken while the n-th checkpoint of the process is
\* in progress is n
ev_now == snapshot_version

\* l->rows + l->tx_rows of the snapshot file: the rows written to it so far
\* ("%.1fM rows written")
xlog_rows == Len(rows)

\* checkpoint_write_row(): the static timestamp after the call
write_row_tm == IF write_row_last = 0 THEN ev_now ELSE write_row_last

\* checkpoint_write_row(l, row): the header of the row as it is passed to
\* xlog_write_row()
checkpoint_write_row(row) ==
    [row EXCEPT !.tm = write_row_tm, !.lsn = xlog_rows]

\* checkpoint_write_tuple(l, space_id, group_id, data, size)
checkpoint_write_tuple(space_id, data) ==
    checkpoint_write_row([space_id |-> space_id, tuple |-> data,
                          lsn |-> 0, tm |-> 0])

\* checkpoint_f(): one it->next() of the current entry and the
\* checkpoint_write_tuple() of what it yields; fail says what fails:
\* "next" (it->next), "write" (xlog_write_row) or "none"
WriterNext ==
    /\ proc = "running"
    /\ cord.st = "running" /\ cord.pc = "write"
    /\ checkpoint # NULL
    /\ IF cord.entry > Len(checkpoint.entries)
       THEN /\ cord' = [cord EXCEPT !.pc = "flush"]
            /\ UNCHANGED <<checkpoint, rows, write_row_last>>
       ELSE LET entry == checkpoint.entries[cord.entry]
                it == entry.iterator
            IN  \E fail \in {"none", "next", "write"} :
                  /\ fail = "write" => it.rest # <<>>
                  /\ IF fail = "next"
                     THEN /\ WriterExit(-1)
                          /\ UNCHANGED <<checkpoint, rows, write_row_last>>
                     ELSE IF it.rest = <<>>
                     THEN /\ cord' = [cord EXCEPT !.entry = @ + 1]
                          /\ UNCHANGED <<checkpoint, rows, write_row_last>>
                     ELSE IF fail = "write"
                     THEN /\ write_row_last' = write_row_tm
                          /\ WriterExit(-1)
                          /\ UNCHANGED <<checkpoint, rows>>
                     ELSE /\ rows' = Append(rows,
                                 checkpoint_write_tuple(entry.space_id,
                                                        Head(it.rest)))
                          /\ write_row_last' = write_row_tm
                          /\ checkpoint' = [checkpoint EXCEPT
                                 !.entries[cord.entry].iterator.rest = Tail(@)]
                          /\ UNCHANGED cord
    /\ UNCHANGED <<proc, snapshot_version, delayed_free_mode, tuples,
                   file_vars, ckpt_fiber, wait_result, at_begin, ckpt_end,
                   gc_vars, ext_vars, rec_vars, tuple_chunks>>

\* checkpoint_f(): xlog_flush() and xlog_close()
WriterFlush ==
    /\ proc = "running"
    /\ cord.st = "running" /\ cord.pc = "flush"
    /\ \E ok \in BOOLEAN : WriterExit(IF ok THEN 0 ELSE -1)
    /\ UNCHANGED <<proc, checkpoint, snapshot_version, delayed_free_mode,
                   tuples, rows, file_vars, ckpt_fiber, wait_result,
                   at_begin, ckpt_end, gc_vars, ext_vars,
                   rec_vars, tuple_chunks, write_row_last>>

(* ------------------------- commit and abort --------------------------- *)
\* memtx_engine_commit_checkpoint() from xdir_last_vclock() to its end
CommitFinish ==
    /\ snap_dir' = snap_dir \cup {checkpoint.vclock}
    /\ checkpoint_delete_ok(checkpoint)
    /\ checkpoint' = NULL
    /\ proc' = proc
    /\ SetGc(memtx_engine_gc_after_checkpoint(GcState))
    /\ ckpt_fiber' = "idle"
    /\ rows' = <<>>
    /\ at_begin' = NoBegin
    /\ ckpt_end' = [how |-> "committed", vclock |-> checkpoint.vclock,
                    prev |-> ckpt_end.prev]
    /\ UNCHANGED <<snapshot_version, tuples, cord, wait_result, gc_scheduled,
                   ext_vars, rec_vars, tuple_chunks, write_row_last>>

\* memtx_engine_commit_checkpoint(): whether it renames the in-progress file
commit_renames_always(ckpt) == TRUE
commit_renames(ckpt) == ~ckpt.touch

\* memtx_engine_commit_checkpoint(vclock), up to the yield in coio_rename()
memtx_engine_commit_checkpoint ==
    /\ proc = "running"
    /\ ckpt_fiber = "waited" /\ wait_result = 0
    /\ IF checkpoint = NULL THEN AssertFailed
       ELSE IF checkpoint.waiting_for_snap_thread THEN AssertFailed
       ELSE /\ delayed_free_mode' = FALSE
            /\ IF commit_renames(checkpoint)
               THEN /\ ckpt_fiber' = "commit_rename"
                    /\ UNCHANGED <<proc, checkpoint, snapshot_version,
                                   tuples, cord, rows, file_vars,
                                   wait_result, at_begin, ckpt_end,
                                   gc_vars, ext_vars,
                                   rec_vars, tuple_chunks, write_row_last>>
               ELSE /\ CommitFinish
                    /\ UNCHANGED <<inprogress_files, snap_files>>

\* memtx_engine_commit_checkpoint() after coio_rename() returned
CommitRenamed ==
    /\ proc = "running"
    /\ ckpt_fiber = "commit_rename"
    /\ checkpoint # NULL
    /\ \E ok \in BOOLEAN :
         IF ok /\ checkpoint.vclock \in inprogress_files
         THEN /\ inprogress_files' = inprogress_files \ {checkpoint.vclock}
              /\ snap_files' = snap_files \cup {checkpoint.vclock}
              /\ CommitFinish
              /\ UNCHANGED delayed_free_mode
         ELSE ProcessEnds("panic") /\ cord' = NoCord

\* memtx_engine_abort_checkpoint(): the allocator mode it leaves,
\* small_alloc_setopt(&memtx->alloc, SMALL_DELAYED_FREE_MODE, false)
abort_free_mode_untouched == delayed_free_mode
abort_free_mode == FALSE

\* memtx_engine_abort_checkpoint(), up to its first yield: cord_cojoin()
\* when the writer thread is still awaited, else coio_unlink()
memtx_engine_abort_checkpoint ==
    /\ proc = "running"
    /\ ckpt_fiber \in {"begun", "waited"}
    /\ checkpoint # NULL
    /\ IF checkpoint.waiting_for_snap_thread
       THEN /\ ckpt_fiber' = "abort_join"
            /\ UNCHANGED delayed_free_mode
       ELSE /\ ckpt_fiber' = "abort_unlink"
            /\ delayed_free_mode' = abort_free_mode
    /\ UNCHANGED <<proc, checkpoint, snapshot_version, tuples, cord, rows,
                   file_vars, wait_result, at_begin, ckpt_end, gc_vars,
                   ext_vars, rec_vars, tuple_chunks, write_row_last>>

\* memtx_engine_abort_checkpoint() after coio_unlink() returned; its result
\* is ignored
AbortUnlinked ==
    /\ proc = "running"
    /\ ckpt_fiber = "abort_unlink"
    /\ checkpoint # NULL
    /\ \E ok \in BOOLEAN :
         /\ inprogress_files' = IF ok THEN inprogress_files \ {checkpoint.vclock}
                                ELSE inprogress_files
         /\ ckpt_end' = [how |-> IF ok THEN "unlinked" ELSE "unlink_failed",
                         vclock |-> checkpoint.vclock,
                         prev |-> ckpt_end.prev]
    /\ checkpoint_delete_ok(checkpoint)
    /\ checkpoint' = NULL
    /\ ckpt_fiber' = "idle"
    /\ wait_result' = 0
    /\ rows' = <<>>
    /\ at_begin' = NoBegin
    /\ UNCHANGED <<proc, snapshot_version, delayed_free_mode, tuples, cord,
                   snap_files, snap_dir, gc_vars, ext_vars,
                   rec_vars, tuple_chunks, write_row_last>>

(* ------------------- abort next to a suspended wait -------------------- *)
\* The fiber that called wait_checkpoint is suspended in cord_cojoin() and
\* another fiber of the tx thread calls abort_checkpoint.  ckpt_fiber then
\* stands for both: "race_join" (both in cord_cojoin() of the same cord),
\* "race_unlink" (abort in coio_unlink(), wait still in cord_cojoin()),
\* "wait_freed" (abort has returned, wait still in cord_cojoin()),
\* "abort_join" (wait has returned, abort still in cord_cojoin()).

\* memtx_engine_abort_checkpoint() in another fiber, up to its yield:
\* waiting_for_snap_thread is set, so it calls cord_cojoin() too
memtx_engine_abort_checkpoint_in_wait ==
    /\ proc = "running"
    /\ ckpt_fiber = "wait_join"
    /\ checkpoint # NULL
    /\ checkpoint.waiting_for_snap_thread
    /\ ckpt_fiber' = "race_join"
    /\ UNCHANGED <<proc, checkpoint, snapshot_version, delayed_free_mode,
                   tuples, cord, rows, file_vars, wait_result, at_begin,
                   ckpt_end, gc_vars, ext_vars, rec_vars, tuple_chunks,
                   write_row_last>>

\* the writer thread has exited and the cord_cojoin() of abort_checkpoint
\* returns first: abort_checkpoint goes on to coio_unlink()
RaceAbortJoined ==
    /\ proc = "running"
    /\ ckpt_fiber = "race_join"
    /\ cord.st = "exited"
    /\ checkpoint' = [checkpoint EXCEPT !.waiting_for_snap_thread = FALSE]
    /\ delayed_free_mode' = abort_free_mode
    /\ ckpt_fiber' = "race_unlink"
    /\ UNCHANGED <<proc, snapshot_version, tuples, cord, rows, file_vars,
                   wait_result, at_begin, ckpt_end, gc_vars, ext_vars,
                   rec_vars, tuple_chunks, write_row_last>>

\* the cord_cojoin() of wait_checkpoint returns while abort_checkpoint is
\* still in cord_cojoin() or in coio_unlink(): wait_checkpoint clears the
\* flag and returns the result of the writer
RaceWaitJoined ==
    /\ proc = "running"
    /\ ckpt_fiber \in {"race_join", "race_unlink"}
    /\ cord.st = "exited"
    /\ wait_result' = cord.result
    /\ checkpoint' = [checkpoint EXCEPT !.waiting_for_snap_thread = joined_flag]
    /\ cord' = NoCord
    /\ ckpt_fiber' = IF ckpt_fiber = "race_join" THEN "abort_join"
                     ELSE "abort_unlink"
    /\ UNCHANGED <<proc, snapshot_version, delayed_free_mode, tuples, rows,
                   file_vars, at_begin, ckpt_end, gc_vars, ext_vars,
                   rec_vars, tuple_chunks, write_row_last>>

\* the cord_cojoin() of abort_checkpoint on a thread that wait_checkpoint
\* has joined already: joining a joined thread is undefined, it returns
\* or it ends the process
AbortJoined ==
    /\ proc = "running"
    /\ ckpt_fiber = "abort_join"
    /\ checkpoint # NULL
    /\ \E returns \in BOOLEAN :
         IF returns
         THEN /\ checkpoint' =
                   [checkpoint EXCEPT !.waiting_for_snap_thread = FALSE]
              /\ delayed_free_mode' = abort_free_mode
              /\ ckpt_fiber' = "abort_unlink"
              /\ UNCHANGED <<proc, snapshot_version, tuples, cord, rows,
                             file_vars, wait_result, at_begin, ckpt_end,
                             gc_vars, ext_vars, rec_vars, tuple_chunks,
                             write_row_last>>
         ELSE ProcessEnds("crash") /\ cord' = NoCord

\* abort_checkpoint after coio_unlink() returned, wait_checkpoint still in
\* cord_cojoin(): the checkpoint is deleted under it
RaceAbortUnlinked ==
    /\ proc = "running"
    /\ ckpt_fiber = "race_unlink"
    /\ checkpoint # NULL
    /\ \E ok \in BOOLEAN :
         /\ inprogress_files' = IF ok
                                THEN inprogress_files \ {checkpoint.vclock}
                                ELSE inprogress_files
         /\ ckpt_end' = [how |-> IF ok THEN "unlinked" ELSE "unlink_failed",
                         vclock |-> checkpoint.vclock,
                         prev |-> ckpt_end.prev]
    /\ checkpoint_delete_ok(checkpoint)
    /\ checkpoint' = NULL
    /\ ckpt_fiber' = "wait_freed"
    /\ rows' = <<>>
    /\ at_begin' = NoBegin
    /\ UNCHANGED <<proc, snapshot_version, delayed_free_mode, tuples, cord,
                   wait_result, snap_files, snap_dir, gc_vars, ext_vars,
                   rec_vars, tuple_chunks, write_row_last>>

\* the cord_cojoin() of wait_checkpoint returns after abort_checkpoint has
\* deleted the checkpoint: memtx->checkpoint->waiting_for_snap_thread =
\* false writes through the NULL memtx->checkpoint
WaitJoinedFreed ==
    /\ proc = "running"
    /\ ckpt_fiber = "wait_freed"
    /\ checkpoint = NULL
    /\ ProcessEnds("crash") /\ cord' = NoCord

\* memtx_engine_shutdown(): checkpoint_cancel() of an active checkpoint,
\* then the engine is destroyed
memtx_engine_shutdown ==
    /\ proc = "running"
    /\ checkpoint # NULL => checkpoint_delete_ok(checkpoint)
    /\ cord' = IF checkpoint # NULL /\ ~checkpoint_cancel_joins(checkpoint)
               THEN cord ELSE NoCord
    /\ ProcessEnds("shutdown")

(* ---------------------------- tuple chunks ---------------------------- *)
\* memtx_tuple_chunk_new(format, tuple, data, data_sz).  tuple is the
\* tuple argument (0 is NULL), chunk_ok whether smalloc() provides the
\* chunk.  The result of smalloc() is written through unless tuple is
\* NULL; writing through a NULL chunk ends the process.
memtx_tuple_chunk_new(tuple, chunk_ok) ==
    /\ proc = "running"
    /\ tuple # 0 => tuples[tuple].st = "live"
    /\ tuple_chunks.n < MaxChunks
    /\ IF tuple # 0 /\ ~chunk_ok
       THEN ProcessEnds("crash") /\ cord' = NoCord
       ELSE /\ tuples' = smalloc_collect(tuples)
            /\ tuple_chunks' =
                  [n |-> tuple_chunks.n + (IF chunk_ok THEN 1 ELSE 0),
                   ret |-> IF tuple = 0 THEN "NULL" ELSE "data"]
            /\ UNCHANGED <<proc, checkpoint, snapshot_version,
                           delayed_free_mode, cord, rows, file_vars,
                           ckpt_fiber, wait_result, at_begin, ckpt_end,
                           gc_vars, ext_vars, rec_vars, write_row_last>>

\* metmx_tuple_chunk_delete(format, data): smfree() of the chunk
metmx_tuple_chunk_delete ==
    /\ proc = "running"
    /\ tuple_chunks.n > 0
    /\ tuple_chunks' = [tuple_chunks EXCEPT !.n = @ - 1]
    /\ UNCHANGED <<proc, checkpoint, snapshot_version, delayed_free_mode,
                   tuples, cord, rows, file_vars, ckpt_fiber, wait_result,
                   at_begin, ckpt_end, gc_vars, ext_vars, rec_vars,
                   write_row_last>>

(* ------------------------------ gc fiber ------------------------------ *)
\* memtx_engine_schedule_gc(task)
memtx_engine_schedule_gc ==
    /\ proc = "running"
    /\ gc_scheduled < MaxGcTasks
    /\ \E n \in 1 .. MaxGcSteps :
         gc_queue' = Append(gc_queue, [id |-> gc_scheduled + 1, steps |-> n])
    /\ gc_scheduled' = gc_scheduled + 1
    /\ UNCHANGED <<proc, checkpoint, snapshot_version, delayed_free_mode,
                   tuples, cord, rows, file_vars, ckpt_fiber, wait_result,
                   at_begin, ckpt_end, gc_to_free, gc_freed, ext_vars,
                   rec_vars, tuple_chunks, write_row_last>>

\* memtx_engine_gc_f(): one iteration of the loop; with an empty queue the
\* fiber sleeps until memtx_engine_schedule_gc() wakes it
memtx_engine_gc_f ==
    /\ proc = "running"
    /\ gc_queue # <<>>
    /\ SetGc(memtx_engine_run_gc(GcState).g)
    /\ UNCHANGED <<proc, checkpoint, snapshot_version, delayed_free_mode,
                   tuples, cord, rows, file_vars, ckpt_fiber, wait_result,
                   at_begin, ckpt_end, gc_scheduled, ext_vars,
                   rec_vars, tuple_chunks, write_row_last>>

(* --------------------------- index extents ---------------------------- *)
Blocks == 1 .. Max({MaxExtents, Reserve8 + 1})

\* the blocks index_extent_pool can still hand out
pool_free(reserved, used) ==
    (Blocks \cap (1 .. pool_size)) \ (Range(reserved) \cup used)

\* while ((ext = mempool_alloc(pool)) == NULL) { run_gc(&stop); ... }
\* An exhausted pool refuses every attempt, so the loop ends when
\* gc_queue is empty.
pool_alloc(nfail, free, g) ==
    LET n == IF free = {} THEN GcStepsLeft(g.queue) + 1 ELSE nfail
        r == alloc_retry(n, g)
    IN  [ext |-> IF r.ok THEN Min(free) ELSE 0, g |-> r.g,
         gc_calls |-> r.gc_calls]

\* memtx_index_extent_alloc(): whether it takes the head of the list
alloc_from_pool_first(reserved) == FALSE
alloc_from_reserved(reserved) == reserved # <<>>

\* ERROR_INJECT(ERRINJ_INDEX_ALLOC, ...): whether the injected error is
\* returned
errinj_never == FALSE
errinj_hit == errinj_index_alloc

\* memtx_index_extent_alloc(ctx); nfail pool attempts in a row fail
memtx_index_extent_alloc ==
    /\ proc = "running"
    /\ \E nfail \in 0 .. 1 :
         LET covered == reserve_pending > 0
             last == [NoExt EXCEPT !.op = "alloc", !.covered = covered,
                                   !.reserved_before = reserved_extents]
         IN
         IF alloc_from_reserved(reserved_extents)
         THEN /\ num_reserved_extents > 0
              /\ num_reserved_extents' = num_reserved_extents - 1
              /\ reserved_extents' = Tail(reserved_extents)
              /\ extents_used' = extents_used \cup {Head(reserved_extents)}
              /\ ext_last' = [last EXCEPT !.block = Head(reserved_extents),
                                          !.via = "reserved"]
              /\ UNCHANGED gc_vars
         ELSE IF errinj_hit
         THEN /\ ext_last' = [last EXCEPT !.rc = -1, !.via = "errinj"]
              /\ UNCHANGED <<reserved_extents, num_reserved_extents,
                             extents_used, gc_vars>>
         ELSE LET a == pool_alloc(nfail,
                           pool_free(reserved_extents, extents_used), GcState)
              IN  /\ SetGc(a.g)
                  /\ extents_used' = IF a.ext = 0 THEN extents_used
                                     ELSE extents_used \cup {a.ext}
                  /\ ext_last' = [last EXCEPT
                                    !.rc = IF a.ext = 0 THEN -1 ELSE 0,
                                    !.block = a.ext, !.via = "pool",
                                    !.gc_calls = a.gc_calls]
                  /\ UNCHANGED <<reserved_extents, num_reserved_extents,
                                 gc_scheduled>>
    /\ reserve_pending' = Max({reserve_pending - 1, 0})
    /\ inj_log' = IF ~errinj_index_alloc THEN inj_log
                  ELSE IF ext_last'.rc = 0
                  THEN [inj_log EXCEPT !.ok = @ + 1, !.late = inj_log.failed]
                  ELSE [inj_log EXCEPT !.failed = TRUE]
    /\ UNCHANGED <<ckpt_vars, file_vars,
                   rec_vars, tuple_chunks, write_row_last, errinj_index_alloc,
                   pool_size>>

\* memtx_index_extent_free(ctx, extent): mempool_free()
memtx_index_extent_free(extent) ==
    /\ proc = "running"
    /\ extent \in extents_used
    /\ extents_used' = extents_used \ {extent}
    /\ ext_last' = [NoExt EXCEPT !.op = "free", !.block = extent,
                                 !.covered = reserve_pending > 0,
                                 !.reserved_before = reserved_extents]
    /\ UNCHANGED <<ckpt_vars, file_vars, rec_vars, tuple_chunks,
                   write_row_last, gc_vars, reserved_extents,
                   num_reserved_extents, errinj_index_alloc, reserve_pending,
                   pool_size, inj_log>>

\* memtx->num_reserved_extents++ after a block went on the list
reserved_not_counted(num) == num
reserved_counted(num) == num + 1

\* memtx_index_extent_reserve(): the loop that fills the list up to num.
\* The at-th block this call asks the pool for is refused nfail times.
RECURSIVE reserve_loop(_, _, _, _, _)
reserve_loop(num, k, at, nfail, st) ==
    IF ~(st.num < num) THEN [rc |-> 0, st |-> st]
    ELSE LET a == pool_alloc(IF k = at THEN nfail ELSE 0,
                             pool_free(st.reserved, extents_used), st.g)
             gc == [st EXCEPT !.g = a.g, !.gc_calls = @ + a.gc_calls]
         IN  IF a.ext = 0 THEN [rc |-> -1, st |-> gc]
             ELSE reserve_loop(num, k + 1, at, nfail,
                      [gc EXCEPT !.reserved = <<a.ext>> \o @,
                                 !.num = reserved_counted(@)])

\* memtx_index_extent_reserve(memtx, num)
memtx_index_extent_reserve(num) ==
    /\ proc = "running"
    /\ \E at \in 1 .. MaxReserve, nfail \in 0 .. 1 :
         LET last == [NoExt EXCEPT !.op = "reserve", !.block = num,
                                   !.covered = reserve_pending > 0,
                                   !.reserved_before = reserved_extents]
         IN
         IF errinj_index_alloc
         THEN /\ ext_last' = [last EXCEPT !.rc = -1, !.via = "errinj"]
              /\ UNCHANGED <<reserved_extents, num_reserved_extents,
                             reserve_pending, gc_vars>>
         ELSE LET r == reserve_loop(num, 1, at, nfail,
                           [reserved |-> reserved_extents,
                            num |-> num_reserved_extents,
                            g |-> GcState, gc_calls |-> 0])
              IN  /\ reserved_extents' = r.st.reserved
                  /\ num_reserved_extents' = r.st.num
                  /\ SetGc(r.st.g)
                  /\ reserve_pending' = IF r.rc = 0
                                        THEN Max({reserve_pending, num})
                                        ELSE reserve_pending
                  /\ ext_last' = [last EXCEPT !.rc = r.rc, !.via = "pool",
                                              !.gc_calls = r.st.gc_calls]
                  /\ UNCHANGED gc_scheduled
    /\ UNCHANGED <<ckpt_vars, file_vars,
                   rec_vars, tuple_chunks, write_row_last, extents_used,
                   errinj_index_alloc, pool_size, inj_log>>

\* the error injection ERRINJ_INDEX_ALLOC is switched
errinj_set(on) ==
    /\ proc = "running"
    /\ errinj_index_alloc # on
    /\ errinj_index_alloc' = on
    /\ inj_log' = IF on THEN [NoInj EXCEPT !.reserved = num_reserved_extents,
                                           !.covered = reserve_pending]
                  ELSE NoInj
    /\ UNCHANGED <<ckpt_vars, file_vars, rec_vars, tuple_chunks,
                   write_row_last, gc_vars, reserved_extents,
                   num_reserved_extents, extents_used, reserve_pending,
                   ext_last, pool_size>>

(* ------------------------------ recovery ------------------------------ *)
\* tuple_size(): the bytes a tuple adds to the space's bsize
tuple_size(t) == IF t = 0 THEN 0 ELSE t

\* tuples no index of any space holds and nothing references
UnusedTuples(sps, rfs) ==
    {t \in RecTuples :
        /\ rfs[t] = 0
        /\ \A sp \in SpaceIds : \A j \in DOMAIN space_by_id(sps, sp).index :
              t \notin space_by_id(sps, sp).index[j]}

\* index_replace(index, old_tuple, new_tuple, DUP_INSERT, ...): the index
\* holds new_tuple in place of old_tuple (0 is NULL)
index_replace(idx, old, new) == (idx \ {old}) \cup ({new} \ {0})

\* the indexes memtx_space->replace maintains: index_count of the space
\* under all_keys, the primary index under primary_key and while the
\* primary key is being built
replace_index_count(s, sp) ==
    IF s.replace = "all_keys" THEN space_index_count(sp) ELSE 1

\* memtx_space->replace(space, old_tuple, new_tuple, ...) on success
space_replace(s, sp, old, new) ==
    [s EXCEPT
       !.index = [j \in DOMAIN s.index |->
                     IF j <= replace_index_count(s, sp)
                     THEN index_replace(s.index[j], old, new)
                     ELSE s.index[j]],
       !.bsize = s.bsize - tuple_size(old) + tuple_size(new)]

\* whether memtx_space->replace can be asked for this change at all:
\* the bulk build of the primary key only appends
space_replace_possible(s, sp, old, new) ==
    /\ s.exists /\ space_is_memtx(sp) /\ space_has_pk(sp)
    /\ s.replace = "building_primary" => old = 0 /\ new # 0

\* tuple_ref() / tuple_unref() of both tuples of a replace; 0 is NULL
refs_replace(r, unrefd, refd) ==
    [t \in RecTuples |->
        r[t] + (IF t = refd THEN 1 ELSE 0) - (IF t = unrefd THEN 1 ELSE 0)]

\* memtx_engine_create_space() -> memtx_space_new(): the replace mode the
\* new space starts in follows the state of the engine; a data dictionary
\* space is built in full from the start
memtx_engine_create_space(sp) ==
    /\ proc = "running"
    /\ stmt = NoStmt
    /\ ~space_by_id(spaces, sp).exists
    /\ space_is_system(sp) \/ state # "MEMTX_INITIALIZED"
    /\ spaces' = [id \in DOMAIN spaces \cup {sp} |->
          IF id # sp THEN spaces[id] ELSE
          [exists |-> TRUE,
           replace |-> IF space_is_system(sp) \/ state = "MEMTX_OK"
                       THEN "all_keys"
                       ELSE IF state = "MEMTX_FINAL_RECOVERY"
                       THEN "primary_key"
                       ELSE "building_primary",
           pk_built |-> space_has_pk(sp) /\
                        (space_is_system(sp) \/
                         state \in {"MEMTX_OK", "MEMTX_FINAL_RECOVERY"}),
           index |-> [j \in 1 .. space_index_count(sp) |-> {}],
           bsize |-> 0]]
    /\ UNCHANGED <<ckpt_vars, file_vars, gc_vars,
                   ext_vars, tuple_chunks, write_row_last, state,
                   force_recovery, refs, scan, stmt, rec_last>>

\* memtx_end_build_primary_key(): the replace mode it leaves the space in
end_build_all_keys == "all_keys"
end_build_replace == "primary_key"

\* memtx_end_build_primary_key(space, memtx)
memtx_end_build_primary_key(s, sp) ==
    IF ~s.exists \/ ~space_is_memtx(sp) \/ ~space_has_pk(sp)
       \/ s.replace = "all_keys"
    THEN s
    ELSE [s EXCEPT !.pk_built = TRUE, !.replace = end_build_replace]

\* index_build(space->index[j], pk): the secondary index holds the tuples
\* of the primary index
index_build_nothing(pk) == {}
index_build(pk) == pk

\* memtx_build_secondary_keys(space, memtx); fail: an index_build() fails
memtx_build_secondary_keys(s, sp, fail) ==
    IF ~s.exists \/ ~space_is_memtx(sp) \/ ~space_has_pk(sp)
       \/ s.replace = "all_keys"
    THEN [rc |-> 0, s |-> s]
    ELSE IF space_index_count(sp) > 1 /\ fail
    THEN [rc |-> -1, s |-> s]
    ELSE [rc |-> 0,
          s |-> [s EXCEPT !.index = [j \in DOMAIN s.index |->
                                        IF j = 1 THEN s.index[1]
                                        ELSE index_build(s.index[1])],
                          !.replace = "all_keys"]]

\* space_foreach(memtx_build_secondary_keys, memtx) from the i-th space of
\* the cache on: it stops at the first space whose build fails
RECURSIVE space_foreach_build(_, _, _)
space_foreach_build(i, sps, failing) ==
    IF i > Len(SpaceCache) THEN [rc |-> 0, spaces |-> sps]
    ELSE LET sp == SpaceCache[i]
             b == memtx_build_secondary_keys(space_by_id(sps, sp), sp,
                                             sp \in failing)
         IN  IF b.rc # 0 THEN [rc |-> -1, spaces |-> sps]
             ELSE space_foreach_build(i + 1,
                      IF sp \in DOMAIN sps THEN [sps EXCEPT ![sp] = b.s]
                      ELSE sps,
                      failing)

\* the sets of spaces whose index_build() may fail: the spaces with a
\* secondary key to build
BuildFailures ==
    SUBSET {sp \in SpaceIds : /\ space_is_memtx(sp) /\ ~space_is_system(sp)
                              /\ space_index_count(sp) > 1}

\* where memtx_engine_end_recovery() and the forced
\* memtx_engine_begin_final_recovery() write MEMTX_OK: ahead of the build
\* of the secondary keys, whatever the build returns
state_restarts_on_error(rc) ==
    IF rc = 0 THEN "MEMTX_OK" ELSE "MEMTX_INITIAL_RECOVERY"
state_after_build(rc) == "MEMTX_OK"

\* memtx_engine_begin_initial_recovery(engine, vclock)
memtx_engine_begin_initial_recovery ==
    /\ proc = "running"
    /\ stmt = NoStmt
    /\ IF state # "MEMTX_INITIALIZED" THEN AssertFailed
       ELSE /\ state' = IF force_recovery THEN "MEMTX_OK"
                        ELSE "MEMTX_INITIAL_RECOVERY"
            /\ rec_last' = [NoRec EXCEPT !.op = "begin_initial_recovery", !.from = state]
            /\ UNCHANGED <<ckpt_vars, file_vars, gc_vars,
                           ext_vars, tuple_chunks, write_row_last,
                           force_recovery, spaces, refs, scan,
                           stmt>>

\* memtx_engine_begin_final_recovery(engine); failing: the spaces whose
\* index_build() fails
memtx_engine_begin_final_recovery ==
    /\ proc = "running"
    /\ stmt = NoStmt
    /\ \E failing \in BuildFailures :
       IF state = "MEMTX_OK"
       THEN /\ failing = {}
            /\ rec_last' = [NoRec EXCEPT !.op = "begin_final_recovery", !.from = state]
            /\ UNCHANGED <<ckpt_vars, file_vars, gc_vars,
                           ext_vars, tuple_chunks, write_row_last, state,
                           force_recovery, spaces, refs, scan,
                           stmt>>
       ELSE IF state # "MEMTX_INITIAL_RECOVERY" THEN
            failing = {} /\ AssertFailed
       ELSE LET ended == [sp \in DOMAIN spaces |->
                             memtx_end_build_primary_key(spaces[sp], sp)]
                b == space_foreach_build(1, ended, failing)
            IN  /\ IF ~force_recovery
                   THEN /\ failing = {}
                        /\ state' = "MEMTX_FINAL_RECOVERY"
                        /\ spaces' = ended
                        /\ rec_last' = [NoRec EXCEPT
                                          !.op = "begin_final_recovery", !.from = state]
                   ELSE /\ state' = state_after_build(b.rc)
                        /\ spaces' = b.spaces
                        /\ rec_last' = [NoRec EXCEPT
                                          !.op = "begin_final_recovery", !.from = state, !.rc = b.rc]
                /\ UNCHANGED <<ckpt_vars, file_vars, gc_vars,
                               ext_vars, tuple_chunks, write_row_last,
                               force_recovery, refs, scan, stmt>>

\* memtx_engine_end_recovery(engine)
memtx_engine_end_recovery ==
    /\ proc = "running"
    /\ stmt = NoStmt
    /\ \E failing \in BuildFailures :
       IF state = "MEMTX_OK"
       THEN /\ failing = {}
            /\ inprogress_files' = {}
            /\ rec_last' = [NoRec EXCEPT !.op = "end_recovery", !.from = state]
            /\ UNCHANGED <<ckpt_vars, snap_files, snap_dir, gc_vars,
                           ext_vars, tuple_chunks,
                           write_row_last, state, force_recovery, spaces, refs,
                           scan, stmt>>
       ELSE IF state # "MEMTX_FINAL_RECOVERY" THEN
            failing = {} /\ AssertFailed
       ELSE LET b == space_foreach_build(1, spaces, failing)
            IN  /\ state' = state_after_build(b.rc)
                /\ spaces' = b.spaces
                /\ inprogress_files' = IF b.rc = 0 THEN {}
                                       ELSE inprogress_files
                /\ rec_last' = [NoRec EXCEPT !.op = "end_recovery", !.from = state, !.rc = b.rc]
                /\ UNCHANGED <<ckpt_vars, snap_files, snap_dir, gc_vars,
                               ext_vars, tuple_chunks, write_row_last,
                               force_recovery, refs, scan, stmt>>

\* the rows a snapshot file of at most MaxRows rows can hold: the space of
\* the tuple and the type of the row
SnapRow == {[space_id |-> 1, type |-> "INSERT"],
            [space_id |-> 3, type |-> "INSERT"],
            [space_id |-> 3, type |-> "UPDATE"],
            [space_id |-> 4, type |-> "INSERT"]}
\* bootstrap.snap: rows of the data dictionary
BootstrapRows == <<[space_id |-> 1, type |-> "INSERT"]>>

\* memtx_engine_recover_snapshot_row(memtx, row); fail: txn_begin(),
\* space_apply_initial_join_row() or txn_commit() fails, and the
\* transaction leaves nothing behind
memtx_engine_recover_snapshot_row(row, fail, sps, rfs) ==
    LET s == space_by_id(sps, row.space_id)
        unused == UnusedTuples(sps, rfs)
        err == [rc |-> -1, spaces |-> sps, refs |-> rfs]
    IN  IF row.type # "INSERT" THEN err
        ELSE IF ~s.exists THEN err
        ELSE IF ~space_is_memtx(row.space_id) THEN err
        ELSE IF fail \/ unused = {} THEN err
        ELSE LET new == Min(unused) IN
             IF ~space_replace_possible(s, row.space_id, 0, new) THEN err
             ELSE [rc |-> 0,
                   spaces |-> [sps EXCEPT ![row.space_id] =
                                 space_replace(s, row.space_id, 0, new)],
                   refs |-> refs_replace(rfs, 0, new)]

\* memtx_engine_bootstrap(): the loop over the rows of bootstrap.snap from
\* the i-th on, which the first failing row ends
RECURSIVE bootstrap_rows(_, _, _, _)
bootstrap_rows(i, failAt, sps, rfs) ==
    IF i > Len(BootstrapRows) THEN [rc |-> 0, spaces |-> sps, refs |-> rfs]
    ELSE LET r == memtx_engine_recover_snapshot_row(BootstrapRows[i],
                                                    i = failAt, sps, rfs)
         IN  IF r.rc < 0 THEN r
             ELSE bootstrap_rows(i + 1, failAt, r.spaces, r.refs)

\* memtx_engine_bootstrap(engine); failAt: 0, or the row that fails, or
\* Len(BootstrapRows) + 1 when the cursor cannot be opened
memtx_engine_bootstrap ==
    /\ proc = "running"
    /\ stmt = NoStmt
    /\ IF state # "MEMTX_INITIALIZED" THEN AssertFailed
       ELSE \E failAt \in 0 .. Len(BootstrapRows) + 1 :
            LET r == IF failAt > Len(BootstrapRows)
                     THEN [rc |-> -1, spaces |-> spaces, refs |-> refs]
                     ELSE bootstrap_rows(1, failAt, spaces, refs)
            IN  /\ state' = "MEMTX_OK"
                /\ spaces' = r.spaces
                /\ refs' = r.refs
                /\ rec_last' = [NoRec EXCEPT !.op = "bootstrap", !.from = state,
                                             !.rc = IF r.rc < 0 THEN -1
                                                    ELSE 0]
                /\ UNCHANGED <<ckpt_vars, file_vars, gc_vars,
                               ext_vars, tuple_chunks, write_row_last,
                               force_recovery, scan, stmt>>

\* memtx_engine_recover_snapshot(): xdir_open_cursor(); ok: it opens
memtx_engine_recover_snapshot ==
    /\ proc = "running"
    /\ stmt = NoStmt
    /\ scan.pc = "none"
    /\ state # "MEMTX_INITIALIZED"
    /\ \E ok \in BOOLEAN :
         scan' = IF ok THEN [NoScan EXCEPT !.pc = "rows"]
                 ELSE [NoScan EXCEPT !.pc = "done", !.ret = -1,
                                     !.why = "open"]
    /\ UNCHANGED <<ckpt_vars, file_vars, gc_vars,
                   ext_vars, tuple_chunks, write_row_last, state,
                   force_recovery, spaces, refs, stmt, rec_last>>

\* what memtx_engine_recover_snapshot() does with the rc of a row that
\* failed: whether the loop goes on to the next row
scan_never_continues(force) == FALSE
scan_continues(force) == force

\* memtx_engine_recover_snapshot(): one turn of the loop over the rows and,
\* when the loop ends, the return.  cursor: what xlog_cursor_next()
\* returns (0 and the row, 1 no more rows, -1 an error); eof: the file ends
\* with the EOF marker
RecoverNext ==
    /\ proc = "running"
    /\ stmt = NoStmt
    /\ scan.pc = "rows"
    /\ \E cursor \in {-1, 0, 1}, row \in SnapRow, fail \in BOOLEAN,
          eof \in BOOLEAN :
       /\ cursor = 0 => scan.pos < MaxRows /\ ~eof
       /\ cursor # 0 => ~fail /\ row = CHOOSE r \in SnapRow : TRUE
       /\ cursor = -1 => ~eof
       /\ IF cursor = 0
          THEN LET at == scan.pos + 1
                   r == memtx_engine_recover_snapshot_row(row, fail,
                                                          spaces, refs)
               IN  /\ spaces' = r.spaces
                   /\ refs' = r.refs
                   /\ scan' = IF r.rc = 0
                              THEN [scan EXCEPT !.pos = at,
                                                !.applied = @ \cup {at}]
                              ELSE IF scan_continues(force_recovery)
                              THEN [scan EXCEPT !.pos = at,
                                                !.failed = @ \cup {at}]
                              ELSE [scan EXCEPT !.pc = "done", !.pos = at,
                                                !.failed = @ \cup {at},
                                                !.ret = -1, !.why = "row"]
                   /\ UNCHANGED <<proc, checkpoint, snapshot_version,
                                  delayed_free_mode, tuples, cord, rows,
                                  ckpt_fiber, wait_result, at_begin,
                                  ckpt_end, state>>
                   /\ UNCHANGED <<file_vars, gc_vars, ext_vars, tuple_chunks,
                                  write_row_last, force_recovery, stmt,
                                  rec_last>>
          ELSE IF cursor = -1
          THEN /\ scan' = [scan EXCEPT !.pc = "done", !.ret = -1,
                                       !.why = "cursor"]
               /\ UNCHANGED <<ckpt_vars, file_vars, gc_vars,
                              ext_vars, tuple_chunks, write_row_last,
                              state, force_recovery, spaces, refs,
                              stmt, rec_last>>
          ELSE IF ~eof
          THEN ProcessEnds("panic") /\ cord' = NoCord
          ELSE /\ scan' = [scan EXCEPT !.pc = "done", !.ret = 0]
               /\ UNCHANGED <<ckpt_vars, file_vars, gc_vars,
                              ext_vars, tuple_chunks, write_row_last,
                              state, force_recovery, spaces, refs,
                              stmt, rec_last>>

\* memtx_space_execute_replace() and the like: a statement of a transaction
\* replaces old_tuple by new_tuple in the space and, when that worked, sets
\* the savepoint.  fails: an index_replace() of its rollback would fail.
execute_replace(sp, old, new, ok, fails) ==
    /\ proc = "running"
    /\ stmt = NoStmt
    /\ scan.pc # "rows"
    /\ state # "MEMTX_INITIALIZED"
    /\ ok \/ ~fails
    /\ space_by_id(spaces, sp).exists /\ space_is_memtx(sp) /\ space_has_pk(sp)
    /\ old \in {0} \cup space_by_id(spaces, sp).index[1]
    /\ new \in {0} \cup UnusedTuples(spaces, refs)
    /\ LET s == space_by_id(spaces, sp)
           done == /\ ok /\ space_replace_possible(s, sp, old, new)
                   /\ (old # 0 \/ new # 0)
       IN  /\ stmt' = [space |-> sp, old_tuple |-> old, new_tuple |-> new,
                       engine_savepoint |-> done, fails |-> fails,
                       before |-> s]
           /\ spaces' = IF done
                        THEN [spaces EXCEPT ![sp] =
                                space_replace(s, sp, old, new)]
                        ELSE spaces
           /\ refs' = IF done THEN refs_replace(refs, old, new) ELSE refs
    /\ UNCHANGED <<ckpt_vars, file_vars, gc_vars,
                   ext_vars, tuple_chunks, write_row_last, state,
                   force_recovery, scan, rec_last>>

\* txn_commit(): the statement is done
txn_commit ==
    /\ proc = "running"
    /\ stmt # NoStmt
    /\ stmt' = NoStmt
    /\ UNCHANGED <<ckpt_vars, file_vars, gc_vars,
                   ext_vars, tuple_chunks, write_row_last, state,
                   force_recovery, spaces, refs, scan, rec_last>>

\* memtx_engine_rollback_statement(): the number of indexes it undoes the
\* replace in; 0 stands for the panic() of the last branch
rollback_all_indexes(s, sp) ==
    IF s.replace = "building_primary" THEN 0 ELSE space_index_count(sp)
rollback_index_count(s, sp) ==
    IF s.replace = "all_keys" THEN space_index_count(sp)
    ELSE IF s.replace = "primary_key" THEN 1
    ELSE 0

\* memtx_space_update_bsize(space, stmt->new_tuple, stmt->old_tuple)
rollback_bsize_kept(s, st) == s.bsize
rollback_bsize(s, st) ==
    s.bsize - tuple_size(st.new_tuple) + tuple_size(st.old_tuple)

\* memtx_engine_rollback_statement(engine, txn, stmt).  A failing
\* index_replace() runs into unreachable(), which ends the process as a
\* failed assert(0) does, and otherwise into the panic() that follows it.
memtx_engine_rollback_statement ==
    /\ proc = "running"
    /\ stmt # NoStmt
    /\ LET s == space_by_id(spaces, stmt.space)
           index_count == rollback_index_count(s, stmt.space)
           made == /\ stmt.old_tuple # 0 \/ stmt.new_tuple # 0
                   /\ stmt.engine_savepoint
           last == [NoRec EXCEPT !.op = "rollback_statement",
                                 !.from = state, !.mode = s.replace,
                                 !.made = made]
       IN
       IF (stmt.old_tuple = 0 /\ stmt.new_tuple = 0)
          \/ ~stmt.engine_savepoint
       THEN /\ stmt' = NoStmt
            /\ rec_last' = last
            /\ UNCHANGED <<ckpt_vars, file_vars, gc_vars,
                           ext_vars, tuple_chunks, write_row_last, state,
                           force_recovery, spaces, refs, scan>>
       ELSE IF index_count = 0
       THEN ProcessEndsIn("panic", last) /\ cord' = NoCord
       ELSE IF stmt.fails
       THEN \E how \in {"assert", "panic"} :
               ProcessEndsIn(how, [last EXCEPT !.rc = -1]) /\ cord' = NoCord
       ELSE /\ spaces' = [spaces EXCEPT ![stmt.space] =
                 [s EXCEPT
                    !.index = [j \in DOMAIN s.index |->
                                  IF j <= index_count
                                  THEN index_replace(s.index[j],
                                           stmt.new_tuple, stmt.old_tuple)
                                  ELSE s.index[j]],
                    !.bsize = rollback_bsize(s, stmt)]]
            /\ refs' = refs_replace(refs, stmt.new_tuple, stmt.old_tuple)
            /\ stmt' = NoStmt
            /\ rec_last' = last
            /\ UNCHANGED <<ckpt_vars, file_vars, gc_vars,
                           ext_vars, tuple_chunks, write_row_last, state,
                           force_recovery, scan>>

(* --------------------------- specifications --------------------------- *)
\* The checkpoint protocol with live tuple traffic and the writer thread.
Next ==
    \/ \E sp \in TupleSpaces, nfail \in {0, 1, AllRefused} :
          Insert(sp, nfail)
    \/ \E t \in Tuples : Delete(t)
    \/ memtx_engine_begin_checkpoint
    \/ memtx_engine_wait_checkpoint
    \/ WaitJoined
    \/ WriterOpen
    \/ WriterNext
    \/ WriterFlush
    \/ memtx_engine_commit_checkpoint
    \/ CommitRenamed
    \/ memtx_engine_abort_checkpoint
    \/ AbortUnlinked
    \/ memtx_engine_shutdown

Spec == Init /\ [][Next]_vars

\* The gc fiber next to the checkpoint protocol: tasks are scheduled and
\* run while checkpoints begin, are written and end, and the tuple arena is
\* exhausted, so that memtx_tuple_new() runs the collector until gc_queue is
\* empty.
NextGc ==
    \/ memtx_engine_schedule_gc
    \/ memtx_engine_gc_f
    \/ \E sp \in TupleSpaces : Insert(sp, AllRefused)
    \/ memtx_engine_begin_checkpoint
    \/ memtx_engine_wait_checkpoint
    \/ WaitJoined
    \/ WriterOpen
    \/ WriterNext
    \/ WriterFlush
    \/ memtx_engine_commit_checkpoint
    \/ CommitRenamed
    \/ memtx_engine_abort_checkpoint
    \/ AbortUnlinked
    \/ memtx_engine_shutdown

SpecGc == Init /\ [][NextGc]_vars

\* The index extent pool: reservations, allocations and frees, with the gc
\* queue that the allocation retries run.
NextExt ==
    \/ \E num \in 0 .. MaxReserve : memtx_index_extent_reserve(num)
    \/ memtx_index_extent_alloc
    \/ \E extent \in Blocks : memtx_index_extent_free(extent)
    \/ \E on \in BOOLEAN : errinj_set(on)
    \/ memtx_engine_schedule_gc
    \/ memtx_engine_gc_f

SpecExt == Init /\ [][NextExt]_vars

\* Recovery: the spaces of the cache, the snapshot file read back and the
\* statements of transactions, from an engine started with either value
\* of force_recovery.
\* the spaces recovery creates: a data dictionary space, a space of the
\* user and a space of another engine
RecSpaces == {1, 3, 4}
\* The reservation ahead of the injection: an arena with room for one
\* extent more than the Reserve8 that are reserved.
InitRes == memtx_engine_new(FALSE, Reserve8 + 1)

NextRes ==
    \/ memtx_index_extent_reserve(Reserve8)
    \/ \E on \in BOOLEAN : errinj_set(on)
    \/ memtx_index_extent_alloc

SpecRes == InitRes /\ [][NextRes]_vars

\* The snapshot generation: tuples inserted and deleted and checkpoints
\* begun and aborted, from a new engine and from an engine that has begun
\* 2^32 - 2 checkpoints and holds no tuple.
InitVer ==
    \E version \in {0, UINT32_MAX_1} :
       engine_idle(FALSE, MaxExtents, version)

NextVer ==
    \/ \E sp \in TupleSpaces : Insert(sp, 0)
    \/ \E t \in Tuples : Delete(t)
    \/ memtx_engine_begin_checkpoint
    \/ memtx_engine_abort_checkpoint
    \/ AbortUnlinked

SpecVer == InitVer /\ [][NextVer]_vars

\* The snapshot files of one process: tuples are inserted, and checkpoints
\* are begun, written by the writer thread and committed one after another.
NextSnap ==
    \/ \E sp \in TupleSpaces : Insert(sp, 0)
    \/ memtx_engine_begin_checkpoint
    \/ memtx_engine_wait_checkpoint
    \/ WaitJoined
    \/ WriterOpen
    \/ WriterNext
    \/ WriterFlush
    \/ memtx_engine_commit_checkpoint
    \/ CommitRenamed

SpecSnap == Init /\ [][NextSnap]_vars

\* Tuple chunks next to the tuples of the same allocator, with checkpoints
\* that switch it to delayed-free mode and back.
NextChunk ==
    \/ \E sp \in TupleSpaces : Insert(sp, 0)
    \/ \E t \in Tuples : Delete(t)
    \/ \E tuple \in {0} \cup Tuples, chunk_ok \in BOOLEAN :
          memtx_tuple_chunk_new(tuple, chunk_ok)
    \/ metmx_tuple_chunk_delete
    \/ memtx_engine_begin_checkpoint
    \/ memtx_engine_abort_checkpoint
    \/ AbortUnlinked

SpecChunk == Init /\ [][NextChunk]_vars

\* Allocations that fail: an arena with room for one extent, gc tasks that
\* are scheduled and run, tuple allocations that the allocator refuses
\* once or every time, and extent allocations and reservations of more
\* than the arena holds.
InitOom == memtx_engine_new(FALSE, 1)

NextOom ==
    \/ memtx_engine_schedule_gc
    \/ memtx_engine_gc_f
    \/ \E nfail \in {0, 1, AllRefused} : Insert(1, nfail)
    \/ memtx_index_extent_reserve(MaxReserve)
    \/ memtx_index_extent_alloc
    \/ \E extent \in Blocks : memtx_index_extent_free(extent)

SpecOom == InitOom /\ [][NextOom]_vars

\* The collector under fair scheduling.  The steps that carry a checkpoint
\* that has begun to its end: the host calls wait_checkpoint and then
\* commit_checkpoint or abort_checkpoint, and the writer thread runs.
CheckpointEnds ==
    \/ memtx_engine_wait_checkpoint
    \/ WaitJoined
    \/ WriterOpen
    \/ WriterNext
    \/ WriterFlush
    \/ memtx_engine_commit_checkpoint
    \/ CommitRenamed
    \/ memtx_engine_abort_checkpoint
    \/ AbortUnlinked

NextGcLive ==
    \/ memtx_engine_schedule_gc
    \/ memtx_engine_gc_f
    \/ memtx_engine_begin_checkpoint
    \/ memtx_engine_wait_checkpoint
    \/ WaitJoined
    \/ WriterOpen
    \/ WriterNext
    \/ WriterFlush
    \/ memtx_engine_commit_checkpoint
    \/ CommitRenamed
    \/ memtx_engine_abort_checkpoint
    \/ AbortUnlinked

\* The gc fiber is woken by memtx_engine_schedule_gc() and yields with
\* fiber_sleep(0) between two iterations, so it runs again whenever
\* gc_queue is not empty; a checkpoint that has begun is carried to its
\* end.
SpecGcLive ==
    /\ Init
    /\ [][NextGcLive]_vars
    /\ WF_vars(memtx_engine_gc_f)
    /\ WF_vars(CheckpointEnds)

\* Two fibers at one checkpoint: the host fiber that begins it, waits for
\* the writer thread and commits, and a fiber that aborts the checkpoint
\* while the first is suspended in wait_checkpoint.
NextRace ==
    \/ \E sp \in TupleSpaces : Insert(sp, 0)
    \/ memtx_engine_begin_checkpoint
    \/ memtx_engine_wait_checkpoint
    \/ WaitJoined
    \/ WriterOpen
    \/ WriterNext
    \/ WriterFlush
    \/ memtx_engine_commit_checkpoint
    \/ CommitRenamed
    \/ memtx_engine_abort_checkpoint_in_wait
    \/ RaceAbortJoined
    \/ RaceWaitJoined
    \/ AbortJoined
    \/ RaceAbortUnlinked
    \/ WaitJoinedFreed
    \/ AbortUnlinked

SpecRace == Init /\ [][NextRace]_vars

InitRec == \E force \in BOOLEAN : memtx_engine_new(force, MaxExtents)

NextRec ==
    \/ \E sp \in RecSpaces : memtx_engine_create_space(sp)
    \/ memtx_engine_bootstrap
    \/ memtx_engine_begin_initial_recovery
    \/ memtx_engine_recover_snapshot
    \/ RecoverNext
    \/ memtx_engine_begin_final_recovery
    \/ memtx_engine_end_recovery
    \/ \E sp \in RecSpaces, old \in {0} \cup RecTuples,
          new \in {0} \cup RecTuples, ok \in BOOLEAN, fails \in BOOLEAN :
          execute_replace(sp, old, new, ok, fails)
    \/ txn_commit
    \/ memtx_engine_rollback_statement

SpecRec == InitRec /\ [][NextRec]_vars

(* ------------------------------- claims ------------------------------- *)
RowTuples == {rows[i].tuple : i \in DOMAIN rows}
PersistentAtBegin == {t \in at_begin : ~space_is_temporary(tuples[t].space)}
\* wait_checkpoint returned 0 and the writer wrote the whole file
FullWriteDone ==
    /\ ckpt_fiber \in {"waited", "commit_rename"}
    /\ wait_result = 0
    /\ checkpoint # NULL
    /\ ~checkpoint.touch

\* C1 (as amended): once the writer has written a whole file with success,
\* its rows are exactly the tuples that were in the primary index of a
\* non-temporary memtx space at begin_checkpoint, each once and under its
\* space id, whatever was inserted or deleted since.
C1_SnapshotIsReadView ==
    FullWriteDone =>
        /\ RowTuples = PersistentAtBegin
        /\ Len(rows) = Cardinality(RowTuples)
        /\ \A i \in DOMAIN rows : rows[i].space_id = tuples[rows[i].tuple].space

\* C1 witness: a full write ended while a tuple of the read view has been
\* deleted from the live index and another tuple was inserted after begin.
C1_Witness ==
    /\ FullWriteDone
    /\ \E t \in PersistentAtBegin : tuples[t].st # "live"
    /\ \E u \in Tuples \ at_begin :
          tuples[u].st = "live" /\ ~space_is_temporary(tuples[u].space)

\* C1 as stated: after a successful wait_checkpoint every tuple is a row of
\* the snapshot iff it was in the primary index of its space at begin.
C1_Original ==
    (ckpt_fiber = "waited" /\ wait_result = 0) => RowTuples = at_begin

\* C2 (as amended): while delayed-free mode is on, that is from
\* begin_checkpoint until commit or abort clears it, every tuple of a
\* non-temporary format that was indexed at begin keeps its bytes, also
\* after it left the index and its reference count reached zero.
C2_OldTuplesStayResident ==
    delayed_free_mode => \A t \in PersistentAtBegin : Resident(t)

\* C2 witness: a tuple of the read view was deleted during the checkpoint
\* and sits on the delayed-free list.
C2_Witness ==
    /\ delayed_free_mode
    /\ cord.st = "running"
    /\ \E t \in PersistentAtBegin : tuples[t].st = "delayed"

\* C2 as stated: every tuple deleted while a checkpoint is in progress
\* keeps its bytes until commit or abort has discarded the checkpoint.
C2_Original == checkpoint # NULL => \A t \in at_begin : Resident(t)

\* C3 (as amended): with an active checkpoint the allocator is in
\* delayed-free mode until commit_checkpoint or abort_checkpoint starts,
\* in particular whenever the writer thread has not been joined.
C3_DelayedFreeUntilCommitOrAbort ==
    /\ (checkpoint # NULL /\ ckpt_fiber \in {"begun", "wait_join", "waited"})
          => delayed_free_mode
    /\ cord.st # "none" /\ proc = "running" => delayed_free_mode

\* C3 witness: wait_checkpoint is suspended in the join, the writer runs.
C3_Witness ==
    /\ ckpt_fiber = "wait_join"
    /\ cord.st = "running"
    /\ delayed_free_mode

\* C3 as stated: whenever memtx->checkpoint is set, also where commit
\* yields, the allocator is in delayed-free mode.
C3_Original == checkpoint # NULL => delayed_free_mode

Aborted == {"unlinked", "unlink_failed"}

\* C4: after a successful memtx_index_extent_reserve(N) the list holds at
\* least N blocks, and each of the next N memtx_index_extent_alloc calls
\* returns the head of the list without asking the pool, without a gc step
\* and without failing; memtx_index_extent_free leaves the list as it is.
C4_ReservedAllocsSucceed ==
    /\ num_reserved_extents = Len(reserved_extents)
    /\ num_reserved_extents >= reserve_pending
    /\ (ext_last.op = "reserve" /\ ext_last.rc = 0) =>
          num_reserved_extents >= ext_last.block
    /\ (ext_last.op = "alloc" /\ ext_last.covered) =>
          /\ ext_last.via = "reserved"
          /\ ext_last.rc = 0
          /\ ext_last.gc_calls = 0
          /\ ext_last.reserved_before # <<>>
          /\ ext_last.block = Head(ext_last.reserved_before)
          /\ reserved_extents = Tail(ext_last.reserved_before)
    /\ ext_last.op = "free" => reserved_extents = ext_last.reserved_before

\* C4 witness: the last allocation a reservation covered was served from
\* the list although the error injection is on, the pool has no block left
\* and a gc task is queued.
C4_Witness ==
    /\ ext_last.op = "alloc"
    /\ ext_last.covered
    /\ reserve_pending = 0
    /\ errinj_index_alloc
    /\ pool_free(reserved_extents, extents_used) = {}
    /\ gc_queue # <<>>

\* C5: no finalizer of a gc task is called while the checkpoint is active.
\* A step that finalizes a task ends with no checkpoint, and a step that
\* takes finished tasks off gc_queue during a checkpoint appends exactly
\* them to gc_to_free.
C5_NoFinalizerDuringCheckpoint ==
    [][proc' = "running" =>
        /\ gc_freed' # gc_freed => checkpoint' = NULL
        /\ (checkpoint # NULL /\ Len(gc_queue') < Len(gc_queue)) =>
              gc_to_free' = gc_to_free \o
                  [i \in 1 .. (Len(gc_queue) - Len(gc_queue')) |->
                       gc_queue[i].id]]_vars

\* C5 witness: a task finished while the writer thread runs and waits on
\* gc_to_free.
C5_Witness ==
    /\ checkpoint # NULL
    /\ cord.st = "running"
    /\ gc_to_free # <<>>
    /\ gc_freed = {}

\* C6 as stated: gc_to_free is non-empty only while a checkpoint is in
\* progress; commit_checkpoint and abort_checkpoint leave it empty.
C6_Original == (proc = "running" /\ checkpoint = NULL) => gc_to_free = <<>>

\* C7 (as amended): after abort_checkpoint the engine has no checkpoint, no
\* unjoined writer thread and delayed-free mode off, and the in-progress
\* file of the aborted checkpoint is gone unless the unlink failed; the
\* next checkpoint passes the assertions of begin, wait and commit, and when
\* it commits its snapshot is in the directory.
C7_AbortIsClean ==
    /\ (proc = "running" /\ ckpt_end.how \in Aborted) =>
          /\ checkpoint = NULL
          /\ cord.st = "none"
          /\ ~delayed_free_mode
          /\ ckpt_fiber = "idle"
          /\ ckpt_end.how = "unlinked" =>
                ckpt_end.vclock \notin inprogress_files
    /\ ckpt_end.prev \in Aborted => proc # "assert"
    /\ (ckpt_end.prev \in Aborted /\ ckpt_end.how = "committed") =>
          /\ ckpt_end.vclock \in snap_dir
          /\ ckpt_end.vclock \in snap_files
          /\ checkpoint = NULL /\ ~delayed_free_mode

\* C7 witness: a checkpoint was aborted, its file unlinked, and the next
\* one has committed.
C7_Witness ==
    /\ proc = "running"
    /\ ckpt_end.prev = "unlinked"
    /\ ckpt_end.how = "committed"

\* C7 as stated: after abort_checkpoint no in-progress file of the
\* checkpoint remains.
C7_Original ==
    (proc = "running" /\ ckpt_end.how \in {"unlinked", "unlink_failed"}) =>
        ckpt_end.vclock \notin inprogress_files

\* C8 as stated: when shutdown cancels an active checkpoint, no in-progress
\* file of it is left in the snapshot directory.
C8_Original ==
    (proc = "shutdown" /\ ckpt_end.how = "cancelled") =>
        ckpt_end.vclock \notin inprogress_files

\* C9: no assertion of the checkpoint handlers fails: begin_checkpoint is
\* called with no checkpoint, wait and commit with one, commit with the
\* writer thread joined.
C9_PhasesInOrder ==
    /\ proc # "assert"
    /\ proc = "running" =>
        /\ ckpt_fiber = "idle" => checkpoint = NULL
        /\ ckpt_fiber # "idle" => checkpoint # NULL
        /\ ckpt_fiber \in {"waited", "commit_rename"} =>
              ~checkpoint.waiting_for_snap_thread /\ cord.st = "none"

\* C9 witness: a second checkpoint has gone through begin, wait and commit
C9_Witness ==
    /\ proc = "running"
    /\ ckpt_fiber = "idle"
    /\ snapshot_version = 2
    /\ ckpt_end.how = "committed"

\* C10: while the writer thread has been started and not joined, the
\* checkpoint and the iterators of its entries have not been freed.
C10_IteratorsOutliveWriter ==
    cord.st # "none" =>
        /\ checkpoint # NULL
        /\ checkpoint_delete_ok(checkpoint)
        /\ ckpt_fiber = "wait_join"

\* C10 witness: the writer is in the middle of the file
C10_Witness ==
    /\ cord.st = "running"
    /\ cord.pc = "write"
    /\ rows # <<>>
    /\ checkpoint.entries[cord.entry].iterator.rest # <<>>

\* C11: the recovery state only moves forward.  begin_initial_recovery
\* takes MEMTX_INITIALIZED to MEMTX_INITIAL_RECOVERY, or straight to
\* MEMTX_OK under force_recovery; begin_final_recovery takes
\* MEMTX_INITIAL_RECOVERY to MEMTX_FINAL_RECOVERY; end_recovery takes
\* MEMTX_FINAL_RECOVERY to MEMTX_OK; bootstrap takes MEMTX_INITIALIZED to
\* MEMTX_OK.  No other transition occurs in a running process, and once
\* the state is MEMTX_OK it never changes.
C11_StateMovesForward ==
    [][proc' = "running" =>
        /\ state' # state =>
              \/ /\ state = "MEMTX_INITIALIZED"
                 /\ state' = "MEMTX_INITIAL_RECOVERY"
                 /\ ~force_recovery
                 /\ memtx_engine_begin_initial_recovery
              \/ /\ state = "MEMTX_INITIALIZED"
                 /\ state' = "MEMTX_OK"
                 /\ \/ force_recovery /\ memtx_engine_begin_initial_recovery
                    \/ memtx_engine_bootstrap
              \/ /\ state = "MEMTX_INITIAL_RECOVERY"
                 /\ state' = "MEMTX_FINAL_RECOVERY"
                 /\ memtx_engine_begin_final_recovery
              \/ /\ state = "MEMTX_FINAL_RECOVERY"
                 /\ state' = "MEMTX_OK"
                 /\ memtx_engine_end_recovery
        /\ state = "MEMTX_OK" => state' = "MEMTX_OK"
        /\ rec_last' # rec_last /\ rec_last'.op = "begin_initial_recovery"
              => state' = IF force_recovery THEN "MEMTX_OK"
                          ELSE "MEMTX_INITIAL_RECOVERY"
        /\ rec_last' # rec_last /\ rec_last'.op = "bootstrap"
              => state = "MEMTX_INITIALIZED" /\ state' = "MEMTX_OK"
        /\ rec_last'.op = "begin_final_recovery" /\ state # "MEMTX_OK"
              => state' = "MEMTX_FINAL_RECOVERY"
        /\ rec_last'.op = "end_recovery" /\ rec_last'.from # "MEMTX_OK"
              => rec_last'.from = "MEMTX_FINAL_RECOVERY"
                 /\ state' = "MEMTX_OK"
    ]_vars

\* a non-forced recovery went through all four states: end_recovery took
\* the engine from MEMTX_FINAL_RECOVERY to MEMTX_OK
C11_Witness ==
    /\ proc = "running"
    /\ ~force_recovery
    /\ state = "MEMTX_OK"
    /\ rec_last.op = "end_recovery"
    /\ rec_last.rc = 0
    /\ rec_last.from = "MEMTX_FINAL_RECOVERY"

\* the spaces of the engine that have a primary index
MemtxSpaces ==
    {sp \in SpaceIds : /\ space_by_id(spaces, sp).exists /\ space_is_memtx(sp)
                       /\ space_has_pk(sp)}
\* every secondary index of the space holds as many tuples as the primary
SecondariesPopulated(sp) ==
    \A j \in DOMAIN space_by_id(spaces, sp).index :
       Cardinality(space_by_id(spaces, sp).index[j])
          = Cardinality(space_by_id(spaces, sp).index[1])
\* no secondary index of the space holds a tuple
SecondariesEmpty(sp) ==
    \A j \in DOMAIN space_by_id(spaces, sp).index :
       j > 1 => space_by_id(spaces, sp).index[j] = {}

\* C12, as the spec states it: whenever the recovery state is MEMTX_OK,
\* every persistent memtx space is in all_keys with all of its secondary
\* indexes populated, also after end_recovery or begin_final_recovery
\* returned an error.  end_recovery writes MEMTX_OK ahead of the build, so
\* a failed index_build() leaves MEMTX_OK with a space in primary_key.
C12_Original ==
    proc = "running" /\ state = "MEMTX_OK" =>
       \A sp \in MemtxSpaces :
          ~space_is_temporary(sp) =>
             /\ space_by_id(spaces, sp).replace = "all_keys"
             /\ SecondariesPopulated(sp)

C14_NoSecondaryBeforeEndRecovery ==
    /\ proc = "running"
    /\ ~force_recovery
    /\ state \in {"MEMTX_INITIAL_RECOVERY", "MEMTX_FINAL_RECOVERY"}
    => \A sp \in MemtxSpaces :
          /\ space_by_id(spaces, sp).replace # "all_keys" => SecondariesEmpty(sp)
          /\ space_by_id(spaces, sp).replace = "all_keys" => space_is_system(sp)
          /\ state = "MEMTX_FINAL_RECOVERY" =>
                /\ space_by_id(spaces, sp).pk_built
                /\ space_by_id(spaces, sp).replace
                      \in {"primary_key", "all_keys"}
          /\ rec_last.op = "begin_final_recovery" =>
                state = "MEMTX_FINAL_RECOVERY"

\* the snapshot and the WAL filled the primary index of a space of the
\* user, begin_final_recovery has run, the secondary index is still empty
C14_Witness ==
    /\ proc = "running"
    /\ ~force_recovery
    /\ state = "MEMTX_FINAL_RECOVERY"
    /\ rec_last.op = "begin_final_recovery"
    /\ space_by_id(spaces, 3).exists
    /\ space_by_id(spaces, 3).replace = "primary_key"
    /\ space_by_id(spaces, 3).index[1] = RecTuples
    /\ space_by_id(spaces, 3).index[2] = {}

\* C14, as the spec states it: every secondary index is empty from
\* begin_initial_recovery until end_recovery.  A data dictionary space is
\* in all_keys from the start and its secondary indexes follow every row.
C14_Original ==
    /\ proc = "running"
    /\ ~force_recovery
    /\ state \in {"MEMTX_INITIAL_RECOVERY", "MEMTX_FINAL_RECOVERY"}
    => \A sp \in MemtxSpaces : SecondariesEmpty(sp)

\* the statement changed the indexes: it has a tuple and the savepoint
StmtMade ==
    /\ stmt.old_tuple # 0 \/ stmt.new_tuple # 0
    /\ stmt.engine_savepoint

\* C15: memtx_engine_rollback_statement never returns a failure.  For a
\* space in all_keys it undoes the replace in every index, for a space in
\* primary_key in the primary index only; for a space whose primary key
\* is being built, and when an index_replace() fails, the process ends
\* instead of going on.
C15_RollbackNeverFails ==
    [][memtx_engine_rollback_statement =>
        LET sp == stmt.space
            s == space_by_id(spaces, sp)
            undone(j) == index_replace(s.index[j], stmt.new_tuple,
                                       stmt.old_tuple)
        IN  /\ proc' \in {"running", "panic", "assert"}
            /\ proc' = "running" => rec_last'.rc = 0
            /\ ~StmtMade => proc' = "running"
            /\ StmtMade /\ s.replace = "building_primary" =>
                  proc' = "panic"
            /\ StmtMade /\ stmt.fails => proc' # "running"
            /\ StmtMade /\ ~stmt.fails /\ s.replace = "all_keys" =>
                  /\ proc' = "running"
                  /\ \A j \in DOMAIN s.index :
                        space_by_id(spaces', sp).index[j] = undone(j)
            /\ StmtMade /\ ~stmt.fails /\ s.replace = "primary_key" =>
                  /\ proc' = "running"
                  /\ space_by_id(spaces', sp).index[1] = undone(1)
                  /\ \A j \in DOMAIN s.index :
                        j > 1 => space_by_id(spaces', sp).index[j] = s.index[j]
    ]_vars

\* a statement that had put a tuple into a space whose primary key was
\* being built was rolled back, and the process ended in panic()
C15_Witness ==
    /\ proc = "panic"
    /\ rec_last.op = "rollback_statement"
    /\ rec_last.mode = "building_primary"
    /\ rec_last.made

\* C16: a replace followed by memtx_engine_rollback_statement restores the
\* space: every index holds what it held before the statement, with
\* old_tuple in place of new_tuple in the indexes touched, bsize is what
\* it was, old_tuple has one reference more and new_tuple one less than
\* when the rollback began.  A statement with no savepoint, or with
\* neither tuple, leaves everything as it is.
C16_RollbackRestores ==
    [][memtx_engine_rollback_statement /\ proc' = "running" =>
        LET sp == stmt.space
            old == stmt.old_tuple
            new == stmt.new_tuple
        IN  IF StmtMade
            THEN /\ space_by_id(spaces', sp).index = stmt.before.index
                 /\ \A j \in DOMAIN space_by_id(spaces, sp).index :
                       j <= rollback_index_count(space_by_id(spaces, sp), sp) =>
                          /\ new \notin space_by_id(spaces', sp).index[j]
                          /\ old # 0 => old \in space_by_id(spaces', sp).index[j]
                 /\ space_by_id(spaces', sp).bsize = stmt.before.bsize
                 /\ old # 0 => refs'[old] = refs[old] + 1
                 /\ new # 0 => refs'[new] = refs[new] - 1
                 /\ \A t \in RecTuples \ {old, new} : refs'[t] = refs[t]
                 /\ \A other \in SpaceIds \ {sp} :
                       space_by_id(spaces', other) = space_by_id(spaces, other)
            ELSE spaces' = spaces /\ refs' = refs
    ]_vars

\* a statement that replaced one tuple by another in a space in all_keys
\* was rolled back: both indexes hold the old tuple again
C16_Witness ==
    /\ proc = "running"
    /\ rec_last.op = "rollback_statement"
    /\ rec_last.mode = "all_keys"
    /\ rec_last.made
    /\ stmt = NoStmt
    /\ \E sp \in MemtxSpaces, t \in RecTuples :
          /\ space_index_count(sp) = 2
          /\ space_by_id(spaces, sp).index[1] = {t}
          /\ space_by_id(spaces, sp).index[2] = {t}
          /\ space_by_id(spaces, sp).bsize = tuple_size(t)
          /\ refs[t] = 1

\* C17: memtx_tuple_delete frees the memory of the tuple at once if and
\* only if delayed-free mode is off, or the version of the tuple is the
\* snapshot_version of the engine, or the format is temporary; in every
\* other case the tuple goes on the delayed-free list and the call does
\* not release its memory.
C17_DeleteFreesNowIff ==
    [][\A t \in Tuples :
          Delete(t) =>
             LET now == \/ ~delayed_free_mode
                        \/ tuples[t].version = snapshot_version
                        \/ space_is_temporary(tuples[t].space)
             IN  /\ now <=> tuples'[t].st = "freed"
                 /\ ~now <=> tuples'[t].st = "delayed"
                 /\ ~now => Resident(t)'
                 /\ \A u \in Tuples \ {t} : tuples'[u] = tuples[u]
    ]_vars

\* in delayed-free mode one deleted tuple of a persistent space is on the
\* delayed-free list and another one has been freed
C17_Witness ==
    /\ delayed_free_mode
    /\ \E t \in Tuples, u \in Tuples :
          /\ tuples[t].st = "delayed"
          /\ ~space_is_temporary(tuples[t].space)
          /\ tuples[t].version # snapshot_version
          /\ tuples[u].st = "freed"
          /\ ~space_is_temporary(tuples[u].space)

\* C18, as the spec states it: the version stamped on a live tuple at its
\* allocation is less than or equal, as uint32_t, to snapshot_version.
\* The increment of begin_checkpoint takes snapshot_version from 2^32 - 1
\* to 0, below the version of every tuple allocated before.
C18_Original ==
    \A t \in Tuples :
       tuples[t].st = "live" =>
          uint32_le(tuples[t].version, snapshot_version)

\* C19: when memtx_index_extent_reserve(Reserve8) has succeeded and the
\* injection is set next, with Reserve8 blocks on the list, and stays
\* set, exactly the first Reserve8 calls of memtx_index_extent_alloc
\* succeed, each from the list, and every call after them returns NULL
\* with the injected out-of-memory error.
C19_ReservedThenInjected ==
    /\ proc = "running"
    /\ errinj_index_alloc
    /\ inj_log.covered = Reserve8
    /\ inj_log.reserved = Reserve8
    => /\ inj_log.ok <= Reserve8
       /\ ~inj_log.late
       /\ inj_log.failed => inj_log.ok = Reserve8
       /\ num_reserved_extents = Reserve8 - inj_log.ok
       /\ ext_last.op = "alloc" =>
             /\ ext_last.rc = 0 => ext_last.via = "reserved"
             /\ ext_last.rc # 0 => ext_last.via = "errinj"

\* Reserve8 allocations have succeeded since the injection was set, the
\* next one has failed, and the pool has a block left
C19_Witness ==
    /\ proc = "running"
    /\ errinj_index_alloc
    /\ inj_log = [reserved |-> Reserve8, covered |-> Reserve8,
                  ok |-> Reserve8, failed |-> TRUE, late |-> FALSE]
    /\ ext_last.op = "alloc"
    /\ ext_last.rc = -1
    /\ pool_free(reserved_extents, extents_used) # {}

\* C20: in memtx_engine_recover_snapshot a row that fails to apply is not
\* applied.  With force_recovery off it ends the scan: recover_snapshot
\* returns -1 and every row applied comes before it.  With force_recovery
\* on the scan goes on with the rows after it, and recover_snapshot
\* returns -1 only when the cursor cannot be opened or read, never for
\* the row.
C20_RowFailureEndsScanUnlessForced ==
    proc = "running" =>
       /\ scan.applied \cap scan.failed = {}
       /\ scan.applied \cup scan.failed = 1 .. scan.pos
       /\ scan.ret = -1 <=> scan.why # "none"
       /\ ~force_recovery /\ scan.failed # {} =>
             /\ scan.pc = "done"
             /\ scan.ret = -1
             /\ scan.why = "row"
             /\ scan.failed = {scan.pos}
       /\ force_recovery =>
             /\ scan.why # "row"
             /\ scan.failed # {} /\ scan.why = "none" =>
                   scan.pc \in {"rows", "done"} /\ scan.ret = 0

\* under force_recovery the first row failed, the row after it was
\* applied and recover_snapshot returned 0
C20_Witness ==
    /\ proc = "running"
    /\ force_recovery
    /\ scan.pc = "done"
    /\ scan.ret = 0
    /\ 1 \in scan.failed
    /\ 2 \in scan.applied

\* C21, as the spec states it: the rows of a snapshot file are numbered
\* from 1, the i-th row written carrying lsn i.  checkpoint_write_row()
\* takes the lsn from the row count of the file before the row is written,
\* so the i-th row carries i - 1 and the first row 0.
C21_Original ==
    \A i \in DOMAIN rows : rows[i].lsn = i

\* C22, as the spec states it: every row of the file of a checkpoint
\* carries a timestamp taken during that checkpoint.  The timestamp is
\* a static of checkpoint_write_row() that is set once per process, so
\* the rows of every later file carry the time of the first file.
C22_Original ==
    checkpoint # NULL =>
       \A i \in DOMAIN rows : rows[i].tm = snapshot_version

\* C23, as the spec states it: when smalloc() cannot provide the chunk,
\* memtx_tuple_chunk_new() returns NULL and writes nothing through the
\* failed allocation, whatever the tuple argument is.  The function tests
\* the tuple argument in place of the chunk, so with a tuple it writes
\* through the NULL chunk.
C23_Original ==
    [][\A tuple \in {0} \cup Tuples :
          memtx_tuple_chunk_new(tuple, FALSE) =>
             proc' = "running" /\ tuple_chunks'.ret = "NULL"]_vars

\* C24, as the spec states it: a begin_checkpoint that fails cleans up
\* after itself: the process goes on with no active checkpoint, and the
\* snapshot generation and the delayed-free mode are as they were.  When
\* index_create_snapshot_iterator() fails, the entry is already on the
\* list with a NULL iterator, and checkpoint_delete() calls through it.
C24_Original ==
    [][memtx_engine_begin_checkpoint /\ checkpoint = NULL =>
          /\ proc' = "running"
          /\ checkpoint' = NULL =>
                UNCHANGED <<snapshot_version, delayed_free_mode>>]_vars

\* the step allocated no tuple and was no extent call
InsertFailed ==
    /\ \A t \in Tuples : tuples[t].st = "none" => tuples'[t].st = "none"
    /\ UNCHANGED <<gc_scheduled, ext_vars>>

\* the extent call reported out of memory after asking the pool
ExtentOom(op) ==
    /\ ext_last'.op = op
    /\ ext_last'.rc = -1
    /\ ext_last'.via = "pool"

\* C25: memtx_tuple_new(), memtx_index_extent_alloc() and
\* memtx_index_extent_reserve() report out of memory only when the
\* allocator refused an attempt and the collector had nothing left to run:
\* every step of every task that was pending has been run by then, each
\* followed by a new attempt, and gc_queue is empty.
C25_OomOnlyAfterGcIsDone ==
    [][/\ (/\ InsertFailed
           /\ \E nfail \in {0, 1, AllRefused} : Insert(1, nfail))
              => gc_queue' = <<>>
       /\ (ExtentOom("alloc") /\ memtx_index_extent_alloc) =>
              /\ gc_queue' = <<>>
              /\ ext_last'.gc_calls = GcStepsLeft(gc_queue) + 1
       /\ (/\ ExtentOom("reserve")
           /\ memtx_index_extent_reserve(MaxReserve)) =>
              /\ gc_queue' = <<>>
              /\ ext_last'.gc_calls = GcStepsLeft(gc_queue) + 1]_vars

\* C25 witness: an extent allocation ran a task of two steps to its end,
\* asking the pool again after each step, and then reported out of memory.
C25_Witness ==
    /\ ext_last.op = "alloc"
    /\ ext_last.rc = -1
    /\ ext_last.via = "pool"
    /\ ext_last.gc_calls = 3
    /\ gc_queue = <<>>
    /\ gc_freed # {}

\* the in-progress file of the checkpoint has become its snapshot file
Renamed ==
    /\ checkpoint.vclock \in inprogress_files
    /\ inprogress_files' = inprogress_files \ {checkpoint.vclock}
    /\ snap_files' = snap_files \cup {checkpoint.vclock}

\* C26: the writer thread that stamps the existing file leaves touch set
\* and creates no file; a writer that finds touch clear, or clears it when
\* the stamp fails, returns 0 only after it has created the in-progress
\* file and written every entry to its end.  commit_checkpoint goes to the
\* rename exactly when touch is clear, and with touch set it ends without
\* touching a file; the rename either turns the in-progress file into the
\* snapshot file or ends the process in panic().
C26_RenameIffFullWrite ==
    [][/\ (WriterOpen /\ checkpoint'.touch) =>
              /\ checkpoint.touch
              /\ cord'.st = "exited" /\ cord'.result = 0
              /\ UNCHANGED file_vars
       /\ (WaitJoined /\ wait_result' = 0 /\ ~checkpoint'.touch) =>
              /\ checkpoint.vclock \in inprogress_files
              /\ \A i \in DOMAIN checkpoint.entries :
                    checkpoint.entries[i].iterator.rest = <<>>
       /\ (memtx_engine_commit_checkpoint /\ ~checkpoint.touch) =>
              /\ ckpt_fiber' = "commit_rename"
              /\ checkpoint' = checkpoint
              /\ UNCHANGED file_vars
       /\ (memtx_engine_commit_checkpoint /\ checkpoint.touch) =>
              /\ checkpoint' = NULL
              /\ proc' = "running"
              /\ UNCHANGED <<inprogress_files, snap_files>>
       /\ CommitRenamed =>
              \/ proc' = "panic" /\ UNCHANGED file_vars
              \/ proc' = "running" /\ checkpoint' = NULL /\ Renamed]_vars

\* C26 witness: the snapshot of the vclock exists, so wait_checkpoint set
\* touch; the writer failed to stamp the file, cleared touch and wrote the
\* file in full, and commit_checkpoint is at the rename.
C26_Witness ==
    /\ proc = "running"
    /\ ckpt_fiber = "commit_rename"
    /\ checkpoint # NULL
    /\ checkpoint.vclock \in snap_dir
    /\ ~checkpoint.touch
    /\ checkpoint.vclock \in inprogress_files
    /\ rows # <<>>

\* C27, as the spec states it: while the process runs, every task that
\* was scheduled has its finalizer called in the end, when the gc fiber is
\* scheduled fairly and every checkpoint ends by commit or abort.  A task
\* that is done while a checkpoint is in progress goes on gc_to_free, and
\* abort_checkpoint leaves it there: with no later commit it stays for good.
C27_Original ==
    \A id \in 1 .. MaxGcTasks :
       (proc = "running" /\ gc_scheduled >= id)
          ~> (id \in gc_freed \/ proc # "running")

\* the fibers that are in cord_cojoin() of the cord of the checkpoint, and
\* whether the thread has been joined already
CordJoiners ==
    IF ckpt_fiber = "race_join" THEN 2
    ELSE IF ckpt_fiber \in {"wait_join", "race_unlink", "wait_freed",
                            "abort_join"} THEN 1
    ELSE 0
CordJoined ==
    ckpt_fiber \in {"race_unlink", "wait_freed", "abort_join"}

\* C28, as the spec states it: the writer thread of a checkpoint is joined
\* once, and wait_checkpoint is never suspended on a checkpoint that has
\* been deleted.  abort_checkpoint finds waiting_for_snap_thread set while
\* wait_checkpoint is in cord_cojoin() and joins the same thread, and when
\* it returns first it deletes the checkpoint that wait_checkpoint writes
\* to on its return.
C28_Original ==
    /\ CordJoiners <= 1
    /\ CordJoined => CordJoiners = 0
    /\ ckpt_fiber # "wait_freed"

\* C29: num_reserved_extents is the number of blocks on reserved_extents,
\* the list is empty exactly when the count is 0, no block is on the list
\* twice and no block on the list is in the hands of a caller, after any
\* sequence of reserve, alloc and free, a reserve that ran out of memory
\* part-way included.
C29_CountMatchesList ==
    /\ num_reserved_extents = Len(reserved_extents)
    /\ (reserved_extents # <<>>) <=> (num_reserved_extents > 0)
    /\ Cardinality(Range(reserved_extents)) = Len(reserved_extents)
    /\ Range(reserved_extents) \cap extents_used = {}
    /\ Range(reserved_extents) \subseteq Blocks \cap (1 .. pool_size)

\* C29 witness: a reserve that ran out of memory after it had put a block
\* on the list, while callers hold the other blocks of the pool.
C29_Witness ==
    /\ ext_last.op = "reserve"
    /\ ext_last.rc = -1
    /\ Len(reserved_extents) > Len(ext_last.reserved_before)
    /\ num_reserved_extents < ext_last.block
    /\ extents_used # {}
====
